---- MODULE Spec2Model ----
(***************************************************************************)
(* A model of the AlgoRhythm sound engine: the Web Audio node graph built  *)
(* by every voice trigger (synth-core.js, the drum pads, the guitar page,  *)
(* the piano page), the setTimeout teardown tasks, and the KarplusStrong   *)
(* delay line.                                                             *)
(*                                                                         *)
(* Units.  Times are integer milliseconds (the code's seconds * 1000).     *)
(* Gains and damping factors are integers in units of 0.0001 (GainOne is   *)
(* 1.0), so the ramp floor 0.0001 is 1.  Delay times are microseconds.     *)
(* KarplusStrong samples are fixed-point integers in units of              *)
(* 1/SampleScale; products are truncated toward zero.                      *)
(***************************************************************************)
EXTENDS Integers, Sequences, FiniteSets, TLC

VARIABLES
    page,       \* which page's scripts are loaded: "synth", "drums", "guitar", "piano", "strings",
                \* "index" (script.js alone)
    graph,      \* the audio contexts and sinks created so far, and their holders
    inited,     \* the page's audio context and sinks exist (SynthCore._inited, app.ctx, GUITAR.ctx)
    clock,      \* current time, ms (ctx.currentTime and the host timer clock)
    voices,     \* sequence of the voices triggered so far; a voice's id is its index
    edges,      \* the connections of the audio graph: pairs <<from node, to node>>
    timers,     \* pending setTimeout tasks
    triggers,   \* number of user-level trigger events so far
    strums,     \* number of strumAll calls so far
    pending,    \* playNote calls suspended at `await fetch`
    ks,         \* the KarplusStrong object under test
    tics,       \* number of tic() calls made on ks
    piano,      \* the piano page's note history, redo stack and playback closure
    rec,        \* the page's recording state: recorders, buttons, chunks, saved recordings
    dq          \* the Deque of script.js next to the sequence it stands for

vars == <<page, graph, inited, clock, voices, edges, timers, triggers, strums, pending, ks, tics, piano, rec, dq>>
graphVars == <<page, graph, inited, clock, voices, edges, timers, triggers, strums, pending, piano, rec, dq>>
ksVars == <<ks, tics, piano, rec, dq>>

-----------------------------------------------------------------------------
(* Bounds of the model *)

\* user-level trigger events in one behaviour
MaxTriggers == 2
\* strumAll calls in one behaviour (each schedules NumStrings plucks)
MaxStrums == MaxTriggers \div 2
\* tic() calls on one KarplusStrong object
MaxTics == 10
\* independent draws of the modelled Math.random() stream (it then repeats)
NoiseDigits == 4

-----------------------------------------------------------------------------
(* Numbers *)

Max(a, b) == IF a >= b THEN a ELSE b
Min(a, b) == IF a <= b THEN a ELSE b
Abs(a) == IF a >= 0 THEN a ELSE -a
SetMax(S) == CHOOSE x \in S : \A y \in S : y <= x
SetMin(S) == CHOOSE x \in S : \A y \in S : x <= y

\* a JavaScript number used as a frequency or delay: finite, NaN or +Infinity
Num(n) == [k |-> "num", n |-> n]
\* the finite number 1 / n (n > 1): a frequency below 1 Hz
Frac(n) == [k |-> "frac", n |-> n]
NaN == [k |-> "nan", n |-> 0]
Infinity == [k |-> "inf", n |-> 0]

\* isFinite(x)
IsFinite(x) == x.k \in {"num", "frac"}
\* x <= 0 (false for NaN)
LeqZero(x) == x.k = "num" /\ x.n <= 0
\* truthiness of a number: 0 and NaN are falsy
Truthy(x) == ~(x.k = "nan") /\ ~(x.k = "num" /\ x.n = 0)

GainOne == 10000

-----------------------------------------------------------------------------
(* Nodes and sinks *)

Node(v, r) == [v |-> v, r |-> r]
\* the three sinks of the page's graph belong to no voice (voice 0)
Destination == Node(0, "destination")
Dest == Node(0, "dest")
Analyser == Node(0, "analyser")
Sinks == {Destination, Dest, Analyser}

\* connections made when the page's graph is initialised
InitEdges(p) ==
    CASE p = "synth" -> {}
      [] p = "drums" -> { <<Node(0, "silence"), Node(0, "gain")>>, <<Node(0, "gain"), Dest>> }
      [] p = "guitar" -> { <<Analyser, Destination>> }
      [] p = "piano" -> { <<Analyser, Destination>> }
      [] p = "strings" -> { <<Node(0, "master"), Destination>> }

\* the graph after ensure()/ctxInit()/ensureAudioContext(): created once
EnsuredEdges == IF inited THEN edges ELSE edges \cup InitEdges(page)

\* node.connect(each of the three sinks)
ToSinks(n) == { <<n, s>> : s \in Sinks }

-----------------------------------------------------------------------------
(* Initialisation of the audio graph *)

\* the object that holds a page's context and sinks (SynthCore, app, GUITAR):
\* for each of ctx, dest and analyser the number of the audio context it
\* belongs to, 0 for null
NoHolder == [ctx |-> 0, dest |-> 0, analyser |-> 0, inited |-> FALSE]

\* the creation step that throws the first time it is attempted
Faults == {"none", "ctx", "dest", "analyser"}

\* made: audio contexts constructed so far; fault: the step that is still to
\* throw; failed: an initialisation has thrown; loaded: the page is past its load event;
\* core: SynthCore; app: the page's own holder (app, GUITAR)
NoGraph(fault) ==
    [made |-> 0, fault |-> fault, failed |-> FALSE, loaded |-> FALSE,
     core |-> NoHolder, app |-> NoHolder]

\* new AudioContext(), createMediaStreamDestination(), createAnalyser() in
\* this order, assigned to the holder h one by one, up to the step that throws
CreateAll(g, h) ==
    LET c == g.made + 1
    IN CASE g.fault = "ctx" -> [made |-> g.made, h |-> h, threw |-> TRUE]
         [] g.fault = "dest" -> [made |-> c, h |-> [h EXCEPT !.ctx = c], threw |-> TRUE]
         [] g.fault = "analyser" ->
              [made |-> c, h |-> [h EXCEPT !.ctx = c, !.dest = c], threw |-> TRUE]
         [] OTHER ->
              [made |-> c, h |-> [h EXCEPT !.ctx = c, !.dest = c, !.analyser = c],
               threw |-> FALSE]

\* SynthCore.ensure(): guarded by _inited, which is set last
Ensure(g) ==
    IF g.core.inited THEN [g |-> g, threw |-> FALSE]
    ELSE LET r == CreateAll(g, g.core)
         IN [g |-> [g EXCEPT !.made = r.made,
                             !.core = [r.h EXCEPT !.inited = ~r.threw],
                             !.fault = "none",
                             !.failed = g.failed \/ r.threw],
             threw |-> r.threw]

\* ensureAudioContext() of the piano page, ctxInit() of the drum pads and
\* ctxInit() of guitar.js (no shared appState): guarded by the holder's ctx
AppInit(g) ==
    IF g.app.ctx # 0 THEN [g |-> g, threw |-> FALSE]
    ELSE LET r == CreateAll(g, g.app)
         IN [g |-> [g EXCEPT !.made = r.made,
                             !.app = r.h,
                             !.fault = "none",
                             !.failed = g.failed \/ r.threw],
             threw |-> r.threw]

\* ctxInit() of the page whose pads call SynthCore.pluckGuitarString: its own
\* new AudioContext(), then SynthCore.ensure(), then the sinks of SynthCore
CtxInitStrings(g) ==
    IF g.app.ctx # 0 THEN [g |-> g, threw |-> FALSE]
    ELSE IF g.fault = "ctx"
    THEN [g |-> [g EXCEPT !.fault = "none", !.failed = TRUE], threw |-> TRUE]
    ELSE LET c == g.made + 1
             e == Ensure([g EXCEPT !.made = c, !.app.ctx = c])
         IN IF e.threw THEN e
            ELSE [g |-> [e.g EXCEPT !.app.dest = e.g.core.dest,
                                    !.app.analyser = e.g.core.analyser],
                  threw |-> FALSE]

\* the initialisation a trigger of page p runs first
PageInit(p, g) == IF p \in {"synth", "strings"} THEN Ensure(g) ELSE AppInit(g)

\* the holder whose context and sinks the triggers of page p use
UsedHolder(p, g) == IF p \in {"synth", "strings"} THEN g.core ELSE g.app

\* the initialisation function of page p returns at once
Marked(p, g) == IF p \in {"synth", "strings"} THEN g.core.inited ELSE g.app.ctx # 0

-----------------------------------------------------------------------------
(* Voices and timers *)

\* the floors the gain envelopes ramp to: 0.0001 and 0.001
RampFloor == 1
ToneFloor == 10

BaseVoice(id, kind, t) ==
    [ id |-> id, kind |-> kind, parent |-> 0, t0 |-> t,
      dur |-> 0,          \* the duration parameter as passed, ms
      ramps |-> {},       \* end times of the gain ramps
      fbEnd |-> -1,       \* end time of the ramp on the feedback gain, -1 if none
      targets |-> {},     \* target values of the exponential gain ramps
      sweepTo |-> -1,     \* target of the frequency sweep in Hz, -1 if none
      strings |-> 0,      \* opts.strings of an ensemble voice
      sweep |-> -1,       \* end time of a frequency sweep
      stops |-> {},       \* times of the scheduled source stops
      bufEnd |-> -1,      \* time a started buffer source runs out of samples
      outs |-> {},        \* roles of the output nodes
      roles |-> {},       \* roles of all nodes the trigger created
      sched |-> 0,        \* teardown tasks scheduled for the voice
      ran |-> 0,          \* teardown tasks that have run
      due |-> -1,         \* due time of the teardown task
      freq |-> Num(0),    \* the frequency parameter as passed
      delay |-> Num(0),   \* the delay time set on the DelayNode, microseconds
      bufLen |-> 0,       \* KarplusStrong delay-line length
      gain |-> 0,         \* initial value of the output gain
      damping |-> 0,      \* the decay/damping parameter as passed
      feedback |-> 0,     \* the value set on the feedback gain
      threw |-> FALSE,    \* the trigger ended by throwing
      caught |-> 0,       \* errors of a disconnect the teardown task has swallowed
      escaped |-> FALSE ] \* an error has propagated out of the teardown task

\* a pending setTimeout task: a teardown of the nodes `roles` of voice `voice`,
\* or the pluck of string `arg` of a strum
Timer(v, due, kind, roles, arg) ==
    [voice |-> v, due |-> due, kind |-> kind, roles |-> roles, arg |-> arg]

\* setTimeout(f, delay) runs f no earlier than max(0, delay) ms from now
TimeoutDue(t, delay) == t + Max(0, delay)

Effect(vs, es, ts) == [vs |-> vs, es |-> es, ts |-> ts]
NoEffect == Effect(<<>>, {}, {})

-----------------------------------------------------------------------------
(* SynthCore.playPluck *)

\* (opts.duration || 2000)
PluckDuration(duration) == IF duration = 0 THEN 2000 ELSE duration

\* mutant: the teardown delay without its safety margin
PluckTeardownDelayEarly(duration) == PluckDuration(duration)

PluckTeardownDelay(duration) == PluckDuration(duration) + 200

\* Math.max(0.001, Math.min(1.0, 1 / Math.max(1, freq))), in microseconds
PluckDelay(freq) ==
    CASE freq.k = "nan" -> NaN
      [] freq.k = "inf" -> Num(1000)
      [] OTHER -> Num(Max(1000, Min(1000000, 1000000 \div Max(1, freq.n))))

\* the nodes the teardown closure of playPluck disconnects
PluckTeardownRoles == {"src", "delay", "filter", "feedback", "outGain"}

PlayPluck(id, t, freq, gain, decay, duration) ==
    LET n(r) == Node(id, r)
        stopAt == t + PluckDuration(duration)
        es == { <<n("delay"), n("filter")>>, <<n("filter"), n("feedback")>>,
                <<n("feedback"), n("delay")>>, <<n("delay"), n("outGain")>>,
                <<n("src"), n("delay")>>, <<n("inputGain"), n("delay")>> }
              \cup ToSinks(n("outGain"))
        due == TimeoutDue(t, PluckTeardownDelay(duration))
        v == [ BaseVoice(id, "playPluck", t) EXCEPT
                 !.dur = duration,
                 !.ramps = {stopAt, stopAt + 50},
                 !.targets = {RampFloor},
                 !.fbEnd = stopAt,
                 !.bufEnd = t + 30,
                 !.outs = {"outGain"},
                 !.roles = {"inputGain", "delay", "filter", "feedback", "outGain", "src"},
                 !.sched = 1,
                 !.due = due,
                 !.freq = freq,
                 !.delay = IF PluckDelay(freq).k = "nan" THEN Num(0) ELSE PluckDelay(freq),
                 !.gain = gain,
                 !.damping = decay,
                 !.feedback = decay,
                 !.threw = (PluckDelay(freq).k = "nan") ]
    IN Effect(<<v>>, es,
              {Timer(id, due, "teardown", PluckTeardownRoles, 0)})

-----------------------------------------------------------------------------
(* SynthCore.playPianoLike: hammer impulse + `strings` detuned playPluck voices *)

\* freq * 2^((i - 1) * detuneCents / 1200), to first order, in whole Hz
Detune(freq, i, cents) ==
    IF freq.k = "num" THEN Num(freq.n + ((i - 1) * cents * freq.n) \div 1731) ELSE freq

\* mutant: every string with the damping of the first
PianoStringSameDecay(id, t, freq, strings, decay, duration, i) ==
    PlayPluck(id + 1 + i, t, Detune(freq, i, 4), GainOne \div strings, decay, duration)

\* the playPluck call of loop index i (0-based); its voice id is id + 1 + i
PianoString(id, t, freq, strings, decay, duration, i) ==
    PlayPluck(id + 1 + i, t, Detune(freq, i, 4), GainOne \div strings, decay - i * 5, duration)

PlayPianoLike(id, t, freq, strings, baseGain, decay, duration) ==
    LET n(r) == Node(id, r)
        es == { <<n("gainNode"), n("panner")>>, <<n("hammerSrc"), n("hammerFilter")>>,
                <<n("hammerFilter"), n("gainNode")>> }
              \cup ToSinks(n("panner"))
        v == [ BaseVoice(id, "playPianoLike", t) EXCEPT
                 !.dur = duration,
                 !.ramps = {t + duration},
                 !.targets = {RampFloor},
                 !.stops = {t + 15},
                 !.bufEnd = t + 15,
                 !.outs = {"panner"},
                 !.roles = {"gainNode", "panner", "hammerSrc", "hammerFilter"},
                 !.freq = freq,
                 !.gain = baseGain,
                 !.damping = decay,
                 !.strings = strings ]
        str(i) == PianoString(id, t, freq, strings, decay, duration, i)
        sv(i) == [ str(i).vs[1] EXCEPT !.parent = id ]
        \* pluck.outGain.connect(gainNode)
        join(i) == { <<Node(id + 1 + i, "outGain"), n("gainNode")>> }
    IN Effect(<<v>> \o [i \in 1..strings |-> sv(i - 1)],
              es \cup UNION { str(i).es \cup join(i) : i \in 0..(strings - 1) },
              UNION { str(i).ts : i \in 0..(strings - 1) })

-----------------------------------------------------------------------------
(* SynthCore.playTone / playTom / playKick / playSnare / playHiHat *)

ToneTeardownDelay(duration) == duration + 100

PlayTone(id, kind, t, freq, gain, duration) ==
    LET n(r) == Node(id, r)
        es == { <<n("osc"), n("g")>> } \cup ToSinks(n("g"))
        due == TimeoutDue(t, ToneTeardownDelay(duration))
        v == [ BaseVoice(id, kind, t) EXCEPT
                 !.dur = duration,
                 !.ramps = {t + duration},
                 !.targets = {ToneFloor},
                 !.stops = {t + duration + 20},
                 !.outs = {"g"},
                 !.roles = {"osc", "g"},
                 !.sched = 1,
                 !.due = due,
                 !.freq = freq,
                 !.gain = gain ]
    IN Effect(<<v>>, es, {Timer(id, due, "teardown", {"osc", "g"}, 0)})

\* playTom(freq, opts) is playTone(freq, {gain, type: 'sine', duration})
PlayTom(id, t, freq, gain, duration) == PlayTone(id, "playTom", t, freq, gain, duration)

\* mutant: the teardown due before the oscillator's stop
KickTeardownDelayShort(duration) == duration + 10

KickTeardownDelay(duration) == duration + 100

\* mutant: the sweep target without its 20 Hz floor
KickSweepTargetRaw(endFreq) == endFreq

\* Math.max(20, opts.endFreq)
KickSweepTarget(endFreq) == Max(20, endFreq)

PlayKick(id, t, gain, duration, startFreq, endFreq) ==
    LET n(r) == Node(id, r)
        es == { <<n("osc"), n("g")>> } \cup ToSinks(n("g"))
        due == TimeoutDue(t, KickTeardownDelay(duration))
        v == [ BaseVoice(id, "playKick", t) EXCEPT
                 !.dur = duration,
                 !.ramps = {t + duration},
                 !.targets = {RampFloor},
                 !.sweep = t + duration \div 2,
                 !.sweepTo = KickSweepTarget(endFreq),
                 !.stops = {t + duration + 20},
                 !.outs = {"g"},
                 !.roles = {"osc", "g"},
                 !.sched = 1,
                 !.due = due,
                 !.freq = Num(startFreq),
                 !.gain = gain ]
    IN Effect(<<v>>, es, {Timer(id, due, "teardown", {"osc", "g"}, 0)})

SnareTeardownDelay(duration) == duration + 200

PlaySnare(id, t, noiseGain, toneGain, duration) ==
    LET n(r) == Node(id, r)
        es == { <<n("noiseSrc"), n("bp")>>, <<n("bp"), n("noiseGain")>>,
                <<n("osc"), n("oscGain")>> }
              \cup ToSinks(n("noiseGain")) \cup ToSinks(n("oscGain"))
        due == TimeoutDue(t, SnareTeardownDelay(duration))
        v == [ BaseVoice(id, "playSnare", t) EXCEPT
                 !.dur = duration,
                 !.ramps = {t + duration, t + (duration * 6) \div 10},
                 !.targets = {RampFloor},
                 !.stops = {t + 120, t + duration},
                 !.bufEnd = t + 120,
                 !.outs = {"noiseGain", "oscGain"},
                 !.roles = {"noiseSrc", "noiseGain", "bp", "osc", "oscGain"},
                 !.sched = 1,
                 !.due = due,
                 !.freq = Num(200),
                 !.gain = noiseGain ]
    IN Effect(<<v>>, es,
              {Timer(id, due, "teardown", {"noiseSrc", "noiseGain", "osc", "oscGain", "bp"}, 0)})

HiHatTeardownDelay(decay) == decay + 200

PlayHiHat(id, t, gain, decay) ==
    LET n(r) == Node(id, r)
        es == { <<n("src"), n("hp")>>, <<n("hp"), n("bp")>>, <<n("bp"), n("g")>> }
              \cup ToSinks(n("g"))
        due == TimeoutDue(t, HiHatTeardownDelay(decay))
        v == [ BaseVoice(id, "playHiHat", t) EXCEPT
                 !.dur = decay,
                 !.ramps = {t + decay},
                 !.targets = {RampFloor},
                 !.stops = {t + decay + 10},
                 !.bufEnd = t + 60,
                 !.outs = {"g"},
                 !.roles = {"src", "hp", "bp", "g"},
                 !.sched = 1,
                 !.due = due,
                 !.gain = gain ]
    IN Effect(<<v>>, es,
              {Timer(id, due, "teardown", {"src", "hp", "bp", "g"}, 0)})

-----------------------------------------------------------------------------
(* class KarplusStrong *)

SampleRateHz == 44100
SampleScale == 100000
KSDecay == 9960

\* Math.round(a / b) for integers a, b with b # 0: floor(a / b + 0.5)
RoundDiv(a, b) ==
    IF b > 0 THEN (2 * a + b) \div (2 * b) ELSE (-(2 * a + b)) \div (-(2 * b))

\* mutant: the rounded length without the floor of 4
KSBufferLengthNoFloor(frequency, sampleRate) ==
    CASE frequency.k = "nan" -> NaN
      [] frequency.k = "inf" -> Num(0)
      [] frequency.n = 0 -> Infinity
      [] OTHER -> Num(RoundDiv(sampleRate, frequency.n))

\* Math.max(4, Math.round(sampleRate / frequency))
KSBufferLength(frequency, sampleRate) ==
    CASE frequency.k = "nan" -> NaN
      [] frequency.k = "inf" -> Num(4)
      [] frequency.k = "frac" -> Num(Max(4, sampleRate * frequency.n))
      [] frequency.n = 0 -> Infinity
      [] OTHER -> Num(Max(4, RoundDiv(sampleRate, frequency.n)))

\* the values (Math.random() - 0.5) * 2 is drawn from, in [-1, 1)
NoiseLevels == <<-SampleScale, 0, SampleScale - 1>>

RECURSIVE Pow3(_)
Pow3(k) == IF k = 0 THEN 1 ELSE 3 * Pow3(k - 1)

\* one seed per vector of NoiseDigits draws
MaxSeed == Pow3(NoiseDigits) - 1

\* the i-th draw (1-based) of the random stream `seed`: the seed's base-3 digits,
\* repeated, so that the seeds enumerate every vector of NoiseDigits draws
Random(seed, i) == NoiseLevels[((seed \div Pow3((i - 1) % NoiseDigits)) % 3) + 1]

\* new KarplusStrong(frequency, sampleRate); new Array(n) throws a RangeError
\* unless n is a finite array length, and then no object is constructed
KarplusStrong(frequency, sampleRate, seed) ==
    LET len == KSBufferLength(frequency, sampleRate)
    IN IF len.k = "num"
       THEN [ ok |-> TRUE, frequency |-> frequency, sampleRate |-> sampleRate,
              bufferLength |-> len.n,
              buffer |-> [i \in 1..len.n |-> Random(seed, i)],
              decay |-> KSDecay, out |-> 0 ]
       ELSE [ ok |-> FALSE, frequency |-> frequency, sampleRate |-> sampleRate,
              bufferLength |-> 0, buffer |-> <<>>, decay |-> 0, out |-> 0 ]

\* integer quotient truncated toward zero
TruncDiv(a, b) == IF a >= 0 THEN a \div b ELSE -((-a) \div b)

\* mutant: the two samples summed, not averaged
KSFilterSum(sample1, sample2, decay) == TruncDiv((sample1 + sample2) * decay, GainOne)

\* (sample1 + sample2) * 0.5 * this.decay
KSFilter(sample1, sample2, decay) == TruncDiv((sample1 + sample2) * decay, 2 * GainOne)

\* mutant: the first element read but left in the array
ArrayPeek(a) == [value |-> Head(a), rest |-> a]

\* Array.prototype.shift: the removed first element and the remaining array
ArrayShift(a) == [value |-> Head(a), rest |-> Tail(a)]

\* mutant: sample2 read before the shift, so that it is sample1 again
KSTicNoShift(k) ==
    LET sample2 == k.buffer[1]
        sh == ArrayShift(k.buffer)
        sample1 == sh.value
        newSample == KSFilter(sample1, sample2, k.decay)
    IN [k EXCEPT !.buffer = Append(sh.rest, newSample), !.out = sample1]

\* tic(): dequeue, filter with the new head, enqueue; returns the dequeued sample
KSTic(k) ==
    LET sh == ArrayShift(k.buffer)
        sample1 == sh.value
        sample2 == sh.rest[1]
        newSample == KSFilter(sample1, sample2, k.decay)
    IN [k EXCEPT !.buffer = Append(sh.rest, newSample), !.out = sample1]

-----------------------------------------------------------------------------
(* SynthCore.pluckGuitarString *)

GuitarStringDuration == 2000

GuitarStringTeardownDelay == GuitarStringDuration

PluckGuitarString(id, t, optsFrequency, optsGain) ==
    LET n(r) == Node(id, r)
        \* opts.frequency || 220
        frequency == IF Truthy(optsFrequency) THEN optsFrequency ELSE Num(220)
        len == KSBufferLength(frequency, SampleRateHz)
        es == { <<n("source"), n("gainNode")>> } \cup ToSinks(n("gainNode"))
        due == TimeoutDue(t, GuitarStringTeardownDelay)
        v == [ BaseVoice(id, "pluckGuitarString", t) EXCEPT
                 !.dur = GuitarStringDuration,
                 !.ramps = {t + GuitarStringDuration},
                 !.targets = {RampFloor},
                 !.bufEnd = t + GuitarStringDuration,
                 !.outs = {"gainNode"},
                 !.roles = {"source", "gainNode"},
                 !.sched = 1,
                 !.due = due,
                 !.freq = optsFrequency,
                 !.bufLen = len.n,
                 \* opts.gain || 0.4
                 !.gain = IF optsGain = 0 THEN 4000 ELSE optsGain,
                 !.damping = KSDecay,
                 !.feedback = KSDecay ]
    IN Effect(<<v>>, es, {Timer(id, due, "teardown", {"source", "gainNode"}, 0)})

-----------------------------------------------------------------------------
(* The guitar page: pluck, pluckStringElement, strumAll *)

GuitarPluckTeardownDelay(duration) == duration + 500

\* Math.max(0.0, Math.min(0.999, damping))
GuitarFeedback(damping) == Max(0, Min(9990, damping))

\* Math.max(0.02, Math.min(1.0, strength))
GuitarInitialGain(strength) == Max(200, Min(GainOne, strength))

\* if (!ctx || freq <= 0 || !isFinite(freq)) return;
GuitarPluckRejects(freq) == LeqZero(freq) \/ ~IsFinite(freq)

\* the nodes array the cleanup closure of pluck walks
GuitarTeardownRoles == {"noiseSrc", "delay", "feedbackGain", "toneFilter", "allpass", "outGain"}

GuitarPluck(id, t, freq, strength, damping, duration) ==
    IF GuitarPluckRejects(freq) THEN NoEffect
    ELSE
    LET n(r) == Node(id, r)
        es == { <<n("noiseSrc"), n("delay")>>, <<n("delay"), n("toneFilter")>>,
                <<n("toneFilter"), n("feedbackGain")>>, <<n("feedbackGain"), n("delay")>>,
                <<n("feedbackGain"), n("allpass")>>, <<n("allpass"), n("delay")>>,
                <<n("delay"), n("outGain")>> }
              \cup ToSinks(n("outGain"))
        due == TimeoutDue(t, GuitarPluckTeardownDelay(duration))
        v == [ BaseVoice(id, "pluck", t) EXCEPT
                 !.dur = duration,
                 !.ramps = {t + Max(400, duration)},
                 !.targets = {RampFloor},
                 !.stops = {t + 50},
                 !.bufEnd = t + 40,
                 !.outs = {"outGain"},
                 !.roles = GuitarTeardownRoles,
                 !.sched = 1,
                 !.due = due,
                 !.freq = freq,
                 \* Math.min(0.5, 1 / freq)
                 !.delay = Num(Min(500000, 1000000 \div freq.n)),
                 !.gain = GuitarInitialGain(strength),
                 !.damping = damping,
                 !.feedback = GuitarFeedback(damping) ]
    IN Effect(<<v>>, es,
              {Timer(id, due, "teardown", GuitarTeardownRoles, 0)})

NumStrings == 6
StrumStep == 70

\* data-freq of the string elements (standard tuning, whole Hz)
StringFreq == <<82, 110, 147, 196, 247, 330>>

\* pluckStringElement(el) with the sliders at their defaults
PluckStringElement(id, t, i) == GuitarPluck(id, t, Num(StringFreq[i]), 9000, 9500, 3000)

\* strumAll(leftToRight): one timer per string, i * step ms apart
StrumTimers(t, leftToRight) ==
    { Timer(0, TimeoutDue(t, i * StrumStep), "strum", {},
            IF leftToRight THEN i + 1 ELSE NumStrings - i) : i \in 0..(NumStrings - 1) }

-----------------------------------------------------------------------------
(* The drum pads: playDrum.  Its only setTimeout removes a CSS class. *)

DrumTypes == {"kick", "snare", "hihat", "tomh", "toml"}

PlayDrum(id, t, type) ==
    LET n(r) == Node(id, r)
        body ==
            CASE type = "kick" ->
                   [roles |-> {"o"}, es |-> { <<n("o"), n("g")>> }, sweep |-> t + 450,
                    end |-> t + 500, bufEnd |-> -1, gain |-> GainOne,
                    target |-> ToneFloor, sweepTo |-> 50]
              [] type = "snare" ->
                   [roles |-> {"noise", "filter"},
                    es |-> { <<n("noise"), n("filter")>>, <<n("filter"), n("g")>> },
                    sweep |-> -1, end |-> t + 200, bufEnd |-> t + 160, gain |-> GainOne,
                    target |-> 100, sweepTo |-> -1]
              [] type = "hihat" ->
                   [roles |-> {"noise", "hp"},
                    es |-> { <<n("noise"), n("hp")>>, <<n("hp"), n("g")>> },
                    sweep |-> -1, end |-> t + 100, bufEnd |-> t + 50, gain |-> 6000,
                    target |-> ToneFloor, sweepTo |-> -1]
              [] OTHER ->
                   [roles |-> {"o"}, es |-> { <<n("o"), n("g")>> }, sweep |-> t + 400,
                    end |-> t + 400, bufEnd |-> -1, gain |-> 8000,
                    target |-> ToneFloor,
                    sweepTo |-> (IF type = "tomh" THEN 200 ELSE 120) \div 2]
        es == ToSinks(n("g")) \cup body.es
        v == [ BaseVoice(id, "playDrum", t) EXCEPT
                 !.dur = body.end - t,
                 !.ramps = {body.end},
                 !.targets = {body.target},
                 !.sweep = body.sweep,
                 !.sweepTo = body.sweepTo,
                 !.stops = {body.end},
                 !.bufEnd = body.bufEnd,
                 !.outs = {"g"},
                 !.roles = {"g"} \cup body.roles,
                 !.gain = body.gain ]
    IN Effect(<<v>>, es, {})

-----------------------------------------------------------------------------
(* The piano page: playNote (async: suspended at the fetch of the sample) *)

\* play time of a decoded sample, ms
SampleLengths == {1500}

\* the continuation of playNote after `await fetch`: the sample or the oscillator
PlayNoteVoice(id, t, sampleMs) ==
    LET n(r) == Node(id, r)
        v == IF sampleMs > 0
             THEN [ BaseVoice(id, "playNote", t) EXCEPT
                      !.dur = sampleMs,
                      !.bufEnd = t + sampleMs,
                      !.outs = {"gain"},
                      !.roles = {"src", "gain"},
                      !.gain = GainOne ]
             ELSE [ BaseVoice(id, "playNote", t) EXCEPT
                      !.dur = 1000,
                      !.ramps = {t + 10, t + 600},
                      !.targets = {6000, ToneFloor},
                      !.stops = {t + 1000},
                      !.outs = {"gain"},
                      !.roles = {"osc", "gain"},
                      !.freq = Num(440),
                      !.gain = 1 ]
        es == { <<n(IF sampleMs > 0 THEN "src" ELSE "osc"), n("gain")>> } \cup ToSinks(n("gain"))
    IN Effect(<<v>>, es, {})

\* the notes of the keys pressed
Notes == {"C4", "D4"}

\* app.deque and app.redoStack empty, the playback button enabled, no playback
\* closure: i and note are the closure's index and the note of the playNote
\* call it awaits; pc is "idle", "await" (suspended at `await playNote`) or
\* "timer" (setTimeout(playNext, spacing) pending)
NoPlayback ==
    [deque |-> <<>>, redoStack |-> <<>>, disabled |-> FALSE,
     i |-> 0, note |-> "", pc |-> "idle"]

\* the recording state of a page before the first click. recorders: the
\* MediaRecorder objects constructed so far, each with its state and the
\* chunks array of its own closure (script.js); cur: the recorder that
\* app.recorder / app.mediaRecorder refers to, 0 for null; chunks: the shared
\* array app.chunks / app.recordingChunks, each chunk named by the recorder
\* that delivered it; saved: the recordings handed to app.recordings, each
\* with the recorder whose stop event built it and the chunks of its blob;
\* timer: the handle the page keeps; armed: the handles of the pending
\* timeouts and intervals; queue: the recorder events the host has queued;
\* threw: a click handler ended by throwing. The buttons start as
\* stopRecording() leaves them: Record enabled, Stop disabled
IdleRec ==
    [recorders |-> <<>>, cur |-> 0, chunks |-> <<>>, saved |-> <<>>,
     isRecording |-> FALSE, recordDisabled |-> FALSE, stopDisabled |-> TRUE,
     timer |-> 0, armed |-> {}, queue |-> <<>>, threw |-> FALSE]

\* the arrays a Deque can refer to live in cells: a Deque holds the cell of
\* this.items, a caller the cell getAll() returned (0: none yet). ref is the
\* sequence the Deque stands for, ret the value the last call returned and
\* want the value a double-ended queue returns there
Cells == {1, 2, 3}
NoDeque ==
    [heap |-> [a \in Cells |-> <<>>], items |-> 1, all |-> 0,
     ref |-> <<>>, ret |-> "undefined", want |-> "undefined"]

\* mutant: the note recorded with the redo stack left as it is
RecordNoteKeepRedo(pn, note) == [pn EXCEPT !.deque = Append(@, note)]

\* the end of playNote: app.deque.push({note, t}); app.redoStack = []
RecordNote(pn, note) == [pn EXCEPT !.deque = Append(@, note), !.redoStack = <<>>]

\* const spacing = 320
PlaybackSpacing == 320

-----------------------------------------------------------------------------
(* The graph's operations *)

Apply(eff) ==
    /\ graph' = [PageInit(page, graph).g EXCEPT !.loaded = TRUE]
    /\ inited' = TRUE
    /\ voices' = voices \o eff.vs
    /\ edges' = EnsuredEdges \cup eff.es
    /\ timers' = timers \cup eff.ts

NextId == Len(voices) + 1

\* a user-level trigger event on page p
UserTrigger(p) ==
    /\ page = p
    /\ triggers < MaxTriggers
    /\ triggers' = triggers + 1

FreqInputs == {Num(440), Num(0), NaN}

PluckInputs ==
    { [freq |-> f, decay |-> 9960, duration |-> 2000] : f \in FreqInputs }
    \cup { [freq |-> Num(440), decay |-> d, duration |-> 2000] : d \in {10000} }
    \cup { [freq |-> Num(440), decay |-> 9960, duration |-> d] : d \in {100, 0, -300} }

TriggerPlayPluck ==
    /\ UserTrigger("synth")
    /\ \E in \in PluckInputs :
          Apply(PlayPluck(NextId, clock, in.freq, 9000, in.decay, in.duration))
    /\ UNCHANGED <<page, clock, strums, pending, ks, tics, piano, rec, dq>>

TriggerPlayPianoLike ==
    /\ UserTrigger("synth")
    /\ \E strings \in {1, 3} :
          Apply(PlayPianoLike(NextId, clock, Num(440), strings, 4000, 9950, 2500))
    /\ UNCHANGED <<page, clock, strums, pending, ks, tics, piano, rec, dq>>

TriggerPlayTone ==
    /\ UserTrigger("synth")
    /\ \E duration \in {600} :
          Apply(PlayTone(NextId, "playTone", clock, Num(440), 2500, duration))
    /\ UNCHANGED <<page, clock, strums, pending, ks, tics, piano, rec, dq>>

TriggerPlayTom ==
    /\ UserTrigger("synth")
    /\ Apply(PlayTom(NextId, clock, Num(120), 6000, 600))
    /\ UNCHANGED <<page, clock, strums, pending, ks, tics, piano, rec, dq>>

\* <<gain, endFreq, duration>> of the kicks tried: the defaults; a gain above 1
\* with a sweep target below the floor and a short duration; a negative gain
\* with a negative sweep target
KickInputs == { <<9000, 40, 500>>, <<15000, 10, 80>>, <<-2000, -5, 500>> }

TriggerPlayKick ==
    /\ UserTrigger("synth")
    /\ \E in \in KickInputs : Apply(PlayKick(NextId, clock, in[1], in[3], 150, in[2]))
    /\ UNCHANGED <<page, clock, strums, pending, ks, tics, piano, rec, dq>>

TriggerPlaySnare ==
    /\ UserTrigger("synth")
    /\ Apply(PlaySnare(NextId, clock, 6000, 4000, 250))
    /\ UNCHANGED <<page, clock, strums, pending, ks, tics, piano, rec, dq>>

TriggerPlayHiHat ==
    /\ UserTrigger("synth")
    /\ \E decay \in {80} : Apply(PlayHiHat(NextId, clock, 2000, decay))
    /\ UNCHANGED <<page, clock, strums, pending, ks, tics, piano, rec, dq>>

TriggerPluckGuitarString ==
    /\ UserTrigger("synth")
    /\ \E f \in {Num(82), Num(0), Num(-5), Frac(2)} :
          Apply(PluckGuitarString(NextId, clock, f, 0))
    /\ UNCHANGED <<page, clock, strums, pending, ks, tics, piano, rec, dq>>

GuitarPluckInputs ==
    { [freq |-> f, damping |-> 9500, duration |-> 3000] : f \in {Num(110), Num(0), NaN} }
    \cup { [freq |-> Num(110), damping |-> d, duration |-> 3000] : d \in {10000} }
    \cup { [freq |-> Num(110), damping |-> 9500, duration |-> d] : d \in {200, 0, -500} }

\* page load: try { ctxInit(); } (drum pads and guitar page)
PageLoad ==
    /\ page \in {"drums", "guitar"}
    /\ ~inited
    /\ graph' = [AppInit(graph).g EXCEPT !.loaded = TRUE]
    /\ inited' = TRUE
    /\ edges' = EnsuredEdges
    /\ UNCHANGED <<page, clock, voices, timers, triggers, strums, pending, ks, tics, piano, rec, dq>>

TriggerGuitarPluck ==
    /\ UserTrigger("guitar")
    /\ \E in \in GuitarPluckInputs :
          Apply(GuitarPluck(NextId, clock, in.freq, 9000, in.damping, in.duration))
    /\ UNCHANGED <<page, clock, strums, pending, ks, tics, piano, rec, dq>>

TriggerPluckStringElement ==
    /\ UserTrigger("guitar")
    /\ \E i \in {1, NumStrings} : Apply(PluckStringElement(NextId, clock, i))
    /\ UNCHANGED <<page, clock, strums, pending, ks, tics, piano, rec, dq>>

StrumAll ==
    /\ UserTrigger("guitar")
    /\ strums < MaxStrums
    /\ strums' = strums + 1
    /\ \E leftToRight \in BOOLEAN : timers' = timers \cup StrumTimers(clock, leftToRight)
    /\ UNCHANGED <<page, graph, inited, clock, voices, edges, pending, ks, tics, piano, rec, dq>>

\* a strum timer fires: pluckStringElement(el)
StrumFire(t) ==
    /\ t \in timers
    /\ t.kind = "strum"
    /\ t.due <= clock
    /\ LET eff == PluckStringElement(NextId, clock, t.arg)
       IN /\ graph' = [PageInit(page, graph).g EXCEPT !.loaded = TRUE]
          /\ inited' = TRUE
          /\ voices' = voices \o eff.vs
          /\ edges' = EnsuredEdges \cup eff.es
          /\ timers' = (timers \ {t}) \cup eff.ts
    /\ UNCHANGED <<page, clock, triggers, strums, pending, ks, tics, piano, rec, dq>>

TriggerPlayDrum ==
    /\ UserTrigger("drums")
    /\ \E type \in DrumTypes : Apply(PlayDrum(NextId, clock, type))
    /\ UNCHANGED <<page, clock, strums, pending, ks, tics, piano, rec, dq>>

\* playNote(note) up to its first await: ensureAudioContext(), then fetch
PlayNoteCall ==
    /\ UserTrigger("piano")
    /\ Apply(NoEffect)
    /\ pending' = pending + 1
    /\ UNCHANGED <<page, clock, strums, ks, tics, piano, rec, dq>>

\* the fetch settles: sample found and decoded (sampleMs > 0) or the fallback
PlayNoteResume ==
    /\ pending > 0
    /\ \E sampleMs \in SampleLengths \cup {0} : Apply(PlayNoteVoice(NextId, clock, sampleMs))
    /\ pending' = pending - 1
    /\ \E note \in Notes : piano' = RecordNote(piano, note)
    /\ UNCHANGED <<page, clock, triggers, strums, ks, tics, rec, dq>>

\* mutant: the node references held in shared variables instead of the closure,
\* so that a teardown reaches the same-named nodes of every voice
DisconnectSetShared(t) == { Node(i, r) : i \in 1..Len(voices), r \in t.roles }

\* the nodes a teardown task disconnects: the nodes its closure captured
DisconnectSet(t) == { Node(t.voice, r) : r \in t.roles }

\* a teardown task runs: node.disconnect() removes every outgoing connection
Teardown(t) ==
    /\ t \in timers
    /\ t.kind = "teardown"
    /\ t.due <= clock
    /\ timers' = timers \ {t}
    /\ edges' = { e \in edges : e[1] \notin DisconnectSet(t) }
    /\ voices' = [voices EXCEPT ![t.voice].ran = @ + 1]
    /\ UNCHANGED <<page, graph, inited, clock, triggers, strums, pending, ks, tics, piano, rec, dq>>

\* the largest safety margin any trigger adds to its teardown delay, ms
SafetyMargin == 500

\* the time by which everything scheduled for the voice has ended
LastSound(v) == SetMax(v.ramps \cup v.stops \cup {v.bufEnd, v.t0})

\* the voice's scheduled expiry plus safety margin: its teardown task's due
\* time, or for a voice with no teardown task the end of its sound plus the margin
Expiry(v) == IF v.sched > 0 THEN v.due ELSE LastSound(v) + SafetyMargin

\* the instants at which a timer is due or a voice expires
Horizon ==
    { t.due : t \in timers } \cup { Expiry(voices[i]) : i \in 1..Len(voices) }

\* time passes to the next instant of the horizon; due timers run first
Advance ==
    /\ \A t \in timers : t.due > clock
    /\ \E h \in Horizon : h > clock
    /\ clock' = SetMin({ h \in Horizon : h > clock })
    /\ UNCHANGED <<page, graph, inited, voices, edges, timers, triggers, strums, pending, ks, tics, piano, rec, dq>>

NoKS == [ ok |-> FALSE, frequency |-> Num(0), sampleRate |-> 0, bufferLength |-> 0,
          buffer |-> <<>>, decay |-> 0, out |-> 0 ]

Pages == {"synth", "drums", "guitar", "piano"}

Init ==
    /\ page \in Pages
    /\ graph = NoGraph("none")
    /\ inited = FALSE
    /\ clock = 0
    /\ voices = <<>>
    /\ edges = {}
    /\ timers = {}
    /\ triggers = 0
    /\ strums = 0
    /\ pending = 0
    /\ ks = NoKS
    /\ tics = 0
    /\ piano = NoPlayback
    /\ rec = IdleRec
    /\ dq = NoDeque

Next ==
    \/ PageLoad
    \/ TriggerPlayPluck
    \/ TriggerPlayPianoLike
    \/ TriggerPlayTone
    \/ TriggerPlayTom
    \/ TriggerPlayKick
    \/ TriggerPlaySnare
    \/ TriggerPlayHiHat
    \/ TriggerPluckGuitarString
    \/ TriggerGuitarPluck
    \/ TriggerPluckStringElement
    \/ StrumAll
    \/ \E t \in timers : StrumFire(t)
    \/ TriggerPlayDrum
    \/ PlayNoteCall
    \/ PlayNoteResume
    \/ \E t \in timers : Teardown(t)
    \/ Advance

Spec == Init /\ [][Next]_vars

-----------------------------------------------------------------------------
(* The KarplusStrong delay line on its own *)

KSFrequencies == { Num(n) : n \in {5, 110, 220, 8018, 9800, 11025, 12600, 20000, 44100, 100000, 0, -5, -9800} }
                 \cup {NaN, Infinity}

InitKS ==
    /\ page = "synth"
    /\ graph = NoGraph("none")
    /\ inited = FALSE
    /\ clock = 0
    /\ voices = <<>>
    /\ edges = {}
    /\ timers = {}
    /\ triggers = 0
    /\ strums = 0
    /\ pending = 0
    /\ \E f \in KSFrequencies, seed \in 0..MaxSeed : ks = KarplusStrong(f, SampleRateHz, seed)
    /\ tics = 0
    /\ piano = NoPlayback
    /\ rec = IdleRec
    /\ dq = NoDeque

Tic ==
    /\ ks.ok
    /\ tics < MaxTics
    /\ ks' = KSTic(ks)
    /\ tics' = tics + 1
    /\ UNCHANGED graphVars

NextKS == Tic

SpecKS == InitKS /\ [][NextKS]_vars

-----------------------------------------------------------------------------
(* First use: the initialisation functions when a creation step throws *)

AllPages == Pages \cup {"strings"}

InitInit ==
    /\ page \in AllPages
    /\ \E f \in Faults : graph = NoGraph(f)
    /\ inited = FALSE
    /\ clock = 0
    /\ voices = <<>>
    /\ edges = {}
    /\ timers = {}
    /\ triggers = 0
    /\ strums = 0
    /\ pending = 0
    /\ ks = NoKS
    /\ tics = 0
    /\ piano = NoPlayback
    /\ rec = IdleRec
    /\ dq = NoDeque

\* the connections the page's initialisation makes, once it has completed
InitEdgesAdded(p, before, after) ==
    IF ~Marked(p, before) /\ Marked(p, after)
          /\ UsedHolder(p, after).dest # 0 /\ UsedHolder(p, after).analyser # 0
    THEN InitEdges(p) ELSE {}

\* the load handlers: try { ctxInit(); } catch (e) {} on the drum pads and in
\* guitar.js, initGuitar() -> ctxInit() on the strings page; nothing elsewhere
InitLoad ==
    /\ ~graph.loaded
    /\ LET r == CASE page \in {"drums", "guitar"} -> AppInit(graph)
                  [] page = "strings" -> CtxInitStrings(graph)
                  [] OTHER -> [g |-> graph, threw |-> FALSE]
       IN /\ graph' = [r.g EXCEPT !.loaded = TRUE]
          /\ inited' = Marked(page, r.g)
          /\ edges' = edges \cup
                (IF page = "strings"
                 THEN (IF r.g.app.ctx # 0 /\ ~r.threw THEN InitEdges(page) ELSE {})
                 ELSE InitEdgesAdded(page, graph, r.g))
    /\ UNCHANGED <<page, clock, voices, timers, triggers, strums, pending, ks, tics, piano, rec, dq>>

\* the voices one trigger of page p creates when its initialisation has returned
FirstUseEffects(p, id, t) ==
    CASE p = "synth" ->
           { PlayPluck(id, t, Num(440), 9000, 9960, 2000),
             PlayKick(id, t, 9000, 500, 150, 40),
             PlaySnare(id, t, 6000, 4000, 250) }
      [] p = "strings" ->
           { PluckGuitarString(id, t, Num(StringFreq[i]), 0) : i \in {1, NumStrings} }
      [] p = "drums" -> { PlayDrum(id, t, type) : type \in DrumTypes }
      [] p = "guitar" -> { PluckStringElement(id, t, i) : i \in {1, NumStrings} }
      [] p = "piano" -> { PlayNoteVoice(id, t, sampleMs) : sampleMs \in SampleLengths \cup {0} }

\* node.connect(sink) where the sink may be null: the drum pads and guitar.js
\* skip a null sink (if (dest) ..., if (analyser) ...); playNote connects
\* destination, dest, analyser in this order and throws at the first null one
ConnectExisting(es, h) ==
    { e \in es : /\ e[2] = Dest => h.dest # 0
                 /\ e[2] = Analyser => (h.analyser # 0 /\ (page = "piano" => h.dest # 0)) }

\* a trigger on the page: its initialisation function, then, unless that
\* threw, the creation and connection of the voice
InitTrigger ==
    /\ graph.loaded
    /\ triggers < MaxTriggers
    /\ triggers' = triggers + 1
    /\ LET r == PageInit(page, graph)
           h == UsedHolder(page, r.g)
       IN /\ graph' = r.g
          /\ inited' = Marked(page, r.g)
          /\ IF r.threw
             THEN /\ edges' = edges
                  /\ UNCHANGED <<voices, timers>>
             ELSE \E eff \in FirstUseEffects(page, NextId, clock) :
                     /\ voices' = voices \o
                           [i \in 1..Len(eff.vs) |->
                              [eff.vs[i] EXCEPT
                                 !.threw = @ \/ (page = "piano" /\ (h.dest = 0 \/ h.analyser = 0))]]
                     /\ edges' = edges \cup InitEdgesAdded(page, graph, r.g)
                                       \cup ConnectExisting(eff.es, h)
                     /\ timers' = timers \cup eff.ts
    /\ UNCHANGED <<page, clock, strums, pending, ks, tics, piano, rec, dq>>

NextInit == InitLoad \/ InitTrigger

SpecInit == InitInit /\ [][NextInit]_vars

-----------------------------------------------------------------------------
(* The teardown tasks when a disconnect throws *)

\* the disconnect calls of the voice's teardown task, in their order
TeardownOrder(kind) ==
    CASE kind = "playPluck" -> <<"src", "delay", "filter", "feedback", "outGain">>
      [] kind \in {"playTone", "playTom", "playKick"} -> <<"osc", "g">>
      [] kind = "playSnare" -> <<"noiseSrc", "noiseGain", "osc", "oscGain", "bp">>
      [] kind = "playHiHat" -> <<"src", "hp", "bp", "g">>
      [] kind = "pluckGuitarString" -> <<"source", "gainNode">>
      [] kind = "pluck" ->
           <<"noiseSrc", "delay", "feedbackGain", "toneFilter", "allpass", "outGain">>
      [] OTHER -> <<>>

\* mutant: teardown tasks without a try block
TeardownGuardNone(kind) == "none"

\* the try blocks of the teardown task: one round all disconnect calls
\* (try { a.disconnect(); b.disconnect(); ... } catch (e) {}), or in guitar.js
\* one round each call
TeardownGuard(kind) == IF kind = "pluck" THEN "each" ELSE "all"

\* the task runs and its k-th disconnect call throws (k = 0: none does):
\* the roles disconnected, the errors caught, whether the error leaves the task
RunTeardown(order, guard, k) ==
    LET before == { order[i] : i \in 1..(k - 1) }
        others == { order[i] : i \in (1..Len(order)) \ {k} }
    IN CASE k = 0 -> [off |-> others, caught |-> 0, escaped |-> FALSE]
         [] k > 0 /\ guard = "each" -> [off |-> others, caught |-> 1, escaped |-> FALSE]
         [] k > 0 /\ guard = "all" -> [off |-> before, caught |-> 1, escaped |-> FALSE]
         [] OTHER -> [off |-> before, caught |-> 0, escaped |-> TRUE]

\* a teardown task runs; its first or its last disconnect call may throw
TeardownThrowing(t) ==
    /\ t \in timers
    /\ t.kind = "teardown"
    /\ t.due <= clock
    /\ LET kind == voices[t.voice].kind
           order == TeardownOrder(kind)
       IN \E k \in {0, 1, Len(order)} :
             LET r == RunTeardown(order, TeardownGuard(kind), k)
             IN /\ edges' = { e \in edges : e[1] \notin { Node(t.voice, x) : x \in r.off } }
                /\ voices' = [voices EXCEPT ![t.voice] =
                                 [@ EXCEPT !.ran = @ + 1,
                                           !.caught = @ + r.caught,
                                           !.escaped = @ \/ r.escaped]]
    /\ timers' = timers \ {t}
    /\ UNCHANGED <<page, graph, inited, clock, triggers, strums, pending, ks, tics, piano, rec, dq>>

\* one voice of every kind that schedules a teardown task, with its defaults
TeardownEffects(p, id, t) ==
    IF p = "synth"
    THEN { PlayPluck(id, t, Num(440), 9000, 9960, 2000),
           PlayTone(id, "playTone", t, Num(440), 2500, 600),
           PlayTom(id, t, Num(120), 6000, 600),
           PlayKick(id, t, 9000, 500, 150, 40),
           PlaySnare(id, t, 6000, 4000, 250),
           PlayHiHat(id, t, 2000, 80),
           PluckGuitarString(id, t, Num(220), 0) }
    ELSE { PluckStringElement(id, t, 1) }

TeardownTrigger ==
    /\ triggers < MaxTriggers
    /\ triggers' = triggers + 1
    /\ \E eff \in TeardownEffects(page, NextId, clock) : Apply(eff)
    /\ UNCHANGED <<page, clock, strums, pending, ks, tics, piano, rec, dq>>

InitTeardown == Init /\ page \in {"synth", "guitar"}

NextTeardown ==
    \/ TeardownTrigger
    \/ \E t \in timers : TeardownThrowing(t)
    \/ Advance

SpecTeardown == InitTeardown /\ [][NextTeardown]_vars

-----------------------------------------------------------------------------
(* The piano page: playback of the note history *)

\* the most playNote calls followed to their end
MaxNotes == 4

\* the outcomes of the sample fetch tried for the notes of a playback: no sample
\* is found and the oscillator plays
PlaybackSamples == {0}

\* playNext(): past the last entry the button is re-enabled; otherwise
\* playNote(item.note) is called and runs up to its first await
PlayNextStep(pn) ==
    IF pn.i >= Len(pn.deque)
    THEN [pn EXCEPT !.disabled = FALSE, !.pc = "idle"]
    ELSE [pn EXCEPT !.note = pn.deque[pn.i + 1], !.pc = "await"]

\* a click on the playback button (a disabled button gets no click):
\* playDequeAsSequence() returns at once on an empty history, else it disables
\* the button and runs playNext() with i = 0
PlaybackStart ==
    /\ page = "piano"
    /\ ~piano.disabled
    /\ Len(piano.deque) > 0
    /\ piano' = PlayNextStep([piano EXCEPT !.disabled = TRUE, !.i = 0])
    /\ Apply(NoEffect)
    /\ UNCHANGED <<page, clock, triggers, strums, pending, ks, tics, rec, dq>>

\* the playNote call of the playback completes (the sample or the oscillator,
\* then the note is recorded) and playNext goes on: i++; setTimeout(playNext, spacing)
PlaybackNoteDone ==
    /\ piano.pc = "await"
    /\ Len(voices) < MaxNotes
    /\ \E sampleMs \in PlaybackSamples :
          LET eff == PlayNoteVoice(NextId, clock, sampleMs)
          IN Apply(Effect(eff.vs, eff.es,
                          {Timer(0, TimeoutDue(clock, PlaybackSpacing), "playNext", {}, 0)}))
    /\ piano' = [RecordNote(piano, piano.note) EXCEPT !.i = @ + 1, !.pc = "timer"]
    /\ UNCHANGED <<page, clock, triggers, strums, pending, ks, tics, rec, dq>>

\* the timer of setTimeout(playNext, spacing) fires
PlayNextFire(t) ==
    /\ t \in timers
    /\ t.kind = "playNext"
    /\ t.due <= clock
    /\ timers' = timers \ {t}
    /\ piano' = PlayNextStep(piano)
    /\ UNCHANGED <<page, graph, inited, clock, voices, edges, triggers, strums, pending, ks, tics, rec, dq>>

InitPlayback == Init /\ page = "piano"

NextPlayback ==
    \/ PlayNoteCall
    \/ PlayNoteResume
    \/ PlaybackStart
    \/ PlaybackNoteDone
    \/ \E t \in timers : PlayNextFire(t)
    \/ Advance

\* the host settles every pending playNote call, runs every due timer and
\* lets time pass; the user's clicks are under no such obligation
SpecPlayback ==
    /\ InitPlayback
    /\ [][NextPlayback]_vars
    /\ WF_vars(PlaybackNoteDone)
    /\ WF_vars(\E t \in timers : PlayNextFire(t))
    /\ WF_vars(PlayNoteResume)
    /\ WF_vars(Advance)

-----------------------------------------------------------------------------
(* The piano page: undo and redo on the note history *)

\* Array.prototype.pop: the removed last element and the remaining array
\* (of an empty array: nothing removed, `none` true)
ArrayPop(a) ==
    IF Len(a) = 0 THEN [none |-> TRUE, value |-> "", rest |-> a]
    ELSE [none |-> FALSE, value |-> a[Len(a)], rest |-> SubSeq(a, 1, Len(a) - 1)]

\* mutant: the popped entry dropped, not pushed onto the redo stack
UndoDrop(pn) == [pn EXCEPT !.deque = ArrayPop(pn.deque).rest]

\* the undo handler: const item = app.deque.pop(); if (item) app.redoStack.push(item)
UndoStep(pn) ==
    LET p == ArrayPop(pn.deque)
    IN [pn EXCEPT !.deque = p.rest,
                  !.redoStack = IF p.none THEN @ ELSE Append(@, p.value)]

\* the redo handler: const item = app.redoStack.pop(); if (item) app.deque.push(item)
RedoStep(pn) ==
    LET p == ArrayPop(pn.redoStack)
    IN [pn EXCEPT !.redoStack = p.rest,
                  !.deque = IF p.none THEN @ ELSE Append(@, p.value)]

\* a click on the undo button
Undo ==
    /\ page = "piano"
    /\ piano' = UndoStep(piano)
    /\ UNCHANGED <<page, graph, inited, clock, voices, edges, timers, triggers, strums,
                   pending, ks, tics, rec, dq>>

\* a click on the redo button
Redo ==
    /\ page = "piano"
    /\ piano' = RedoStep(piano)
    /\ UNCHANGED <<page, graph, inited, clock, voices, edges, timers, triggers, strums,
                   pending, ks, tics, rec, dq>>

NextHistory ==
    \/ PlayNoteCall
    \/ PlayNoteResume
    \/ Undo
    \/ Redo
    \/ Advance

SpecHistory == InitPlayback /\ [][NextHistory]_vars

-----------------------------------------------------------------------------
(* Recording: the Record and Stop buttons of the four pages *)

\* "index" stands for a page that loads script.js alone
RecPages == {"piano", "drums", "strings", "index"}

\* the most MediaRecorder objects constructed in one behaviour
MaxRecorders == 3

\* what a start attempt meets: nothing, a throwing new MediaRecorder(), a
\* throwing start()
RecFaults == {"none", "create", "start"}

\* exportAsyncAudioContext() of script.js: guarded by appState.audioContext
ExportContext(g) ==
    IF g.app.ctx # 0 THEN [g |-> g, threw |-> FALSE]
    ELSE LET c == g.made + 1
         IN CASE g.fault = "ctx" ->
                   [g |-> [g EXCEPT !.fault = "none", !.failed = TRUE], threw |-> TRUE]
              [] g.fault = "dest" ->
                   [g |-> [g EXCEPT !.made = c, !.app.ctx = c, !.fault = "none",
                                    !.failed = TRUE],
                    threw |-> TRUE]
              [] OTHER ->
                   [g |-> [g EXCEPT !.made = c, !.app.ctx = c, !.app.dest = c],
                    threw |-> FALSE]

\* the initialisation the Record handler of page p runs first
RecAudioInit(p, g) ==
    CASE p = "index" -> ExportContext(g)
      [] p = "strings" ->
           IF g.app.dest = 0 THEN CtxInitStrings(g) ELSE [g |-> g, threw |-> FALSE]
      [] OTHER -> AppInit(g)

\* new MediaRecorder(stream): inactive; own is the chunks array of the
\* closure that script.js creates with it
NewRecorder == [state |-> "inactive", own |-> <<>>]

Recording(r, m) == m # 0 /\ r.recorders[m].state = "recording"

\* recorder m's stop(): inactive at once, the host queues its dataavailable
\* event and then its stop event
MediaStop(r, m) ==
    [r EXCEPT !.recorders[m].state = "inactive",
              !.queue = @ \o << [m |-> m, kind |-> "data"], [m |-> m, kind |-> "stop"] >>]

\* timer = setTimeout(..) / setInterval(..): a handle no pending timer has and
\* the page does not hold
Arm(r) ==
    LET free == (1..(Cardinality(r.armed) + 2)) \ (r.armed \cup {r.timer})
        h == CHOOSE x \in free : \A y \in free : x <= y
    IN [r EXCEPT !.timer = h, !.armed = @ \cup {h}]

\* clearTimeout(timer) / clearInterval(timer)
Disarm(r) == [r EXCEPT !.armed = @ \ {r.timer}]

\* mutant: stopRecording() that leaves the pending timer alone
StopRecordingKeepTimer(r) ==
    LET s == IF Recording(r, r.cur) THEN MediaStop(r, r.cur) ELSE r
    IN [s EXCEPT !.isRecording = FALSE, !.recordDisabled = FALSE, !.stopDisabled = TRUE]

\* piano.js startRecording(): everything inside one try, the reference and
\* the buttons are assigned after start() has returned
StartRecording(r, fault) ==
    LET m == Len(r.recorders) + 1
        made == [r EXCEPT !.recorders = Append(@, NewRecorder), !.chunks = <<>>]
    IN CASE fault = "create" -> r
         [] fault = "start" -> made
         [] OTHER ->
              Arm([made EXCEPT !.recorders[m].state = "recording", !.cur = m,
                               !.isRecording = TRUE,
                               !.recordDisabled = TRUE, !.stopDisabled = FALSE])

\* piano.js stopRecording()
StopRecording(r) ==
    LET s == IF Recording(r, r.cur) THEN MediaStop(r, r.cur) ELSE r
    IN Disarm([s EXCEPT !.isRecording = FALSE,
                        !.recordDisabled = FALSE, !.stopDisabled = TRUE])

\* startRec() of the drum pads: no guard, no try, app.recorder assigned by the
\* construction; the Record button is never disabled; tick() arms the timer
StartRecDrums(r, fault) ==
    LET m == Len(r.recorders) + 1
        made == [r EXCEPT !.recorders = Append(@, NewRecorder), !.cur = m,
                          !.chunks = <<>>]
    IN CASE fault = "create" -> [r EXCEPT !.threw = TRUE]
         [] fault = "start" -> [made EXCEPT !.threw = TRUE]
         [] OTHER ->
              Arm([made EXCEPT !.recorders[m].state = "recording",
                               !.stopDisabled = FALSE])

\* stopRec() of the drum pads
StopRecDrums(r) ==
    LET s == IF Recording(r, r.cur) THEN MediaStop(r, r.cur) ELSE r
    IN Disarm([s EXCEPT !.stopDisabled = TRUE])

\* startRec() of the strings page: returns while a recording runs; only the
\* construction is inside the try, start() is not
StartRecStrings(r, fault) ==
    LET m == Len(r.recorders) + 1
        made == [r EXCEPT !.recorders = Append(@, NewRecorder), !.cur = m,
                          !.chunks = <<>>]
    IN CASE Recording(r, r.cur) -> r
         [] fault = "create" -> r
         [] fault = "start" -> [made EXCEPT !.threw = TRUE]
         [] OTHER ->
              Arm([made EXCEPT !.recorders[m].state = "recording",
                               !.stopDisabled = FALSE, !.recordDisabled = TRUE])

\* stopRec() of the strings page
StopRecStrings(r) ==
    IF r.cur = 0 THEN r
    ELSE LET s == IF Recording(r, r.cur) THEN MediaStop(r, r.cur) ELSE r
         IN [Disarm(s) EXCEPT !.timer = 0,
                              !.stopDisabled = TRUE, !.recordDisabled = FALSE]

\* script.js startRecording(): no try; the chunks array is the closure's
StartRecordingShared(r, fault) ==
    LET m == Len(r.recorders) + 1
        made == [r EXCEPT !.recorders = Append(@, NewRecorder)]
    IN CASE fault = "create" -> [r EXCEPT !.threw = TRUE]
         [] fault = "start" -> [made EXCEPT !.threw = TRUE]
         [] OTHER ->
              [made EXCEPT !.recorders[m].state = "recording", !.cur = m,
                           !.recordDisabled = TRUE, !.stopDisabled = FALSE]

\* script.js stopRecording()
StopRecordingShared(r) ==
    LET s == IF Recording(r, r.cur) THEN MediaStop(r, r.cur) ELSE r
    IN [s EXCEPT !.cur = 0, !.recordDisabled = FALSE, !.stopDisabled = TRUE]

StartOf(p, r, fault) ==
    CASE p = "piano" -> StartRecording(r, fault)
      [] p = "drums" -> StartRecDrums(r, fault)
      [] p = "strings" -> StartRecStrings(r, fault)
      [] OTHER -> StartRecordingShared(r, fault)

StopOf(p, r) ==
    CASE p = "piano" -> StopRecording(r)
      [] p = "drums" -> StopRecDrums(r)
      [] p = "strings" -> StopRecStrings(r)
      [] OTHER -> StopRecordingShared(r)

\* ondataavailable of recorder m with a blob of the given size: the shared
\* array on the piano, drum and strings pages, the closure's array in script.js
OnData(p, r, m, size) ==
    IF size = 0 THEN r
    ELSE IF p = "index" THEN [r EXCEPT !.recorders[m].own = Append(@, m)]
    ELSE [r EXCEPT !.chunks = Append(@, m)]

\* onstop of recorder m: onRecordingStop() (the blob is built before the first
\* await; a decoding error is caught and nothing is saved), saveRec() of the
\* drum pads, saveRec() of the strings page (nothing without chunks), the
\* closure of script.js
OnStop(p, r, m, decoded) ==
    CASE p = "piano" ->
           IF decoded THEN [r EXCEPT !.saved = << [by |-> m, from |-> r.chunks] >> \o @]
           ELSE r
      [] p = "drums" -> [r EXCEPT !.saved = << [by |-> m, from |-> r.chunks] >> \o @]
      [] p = "strings" ->
           IF r.chunks = <<>> THEN r
           ELSE [r EXCEPT !.saved = << [by |-> m, from |-> r.chunks] >> \o @]
      [] OTHER -> [r EXCEPT !.saved = Append(@, [by |-> m, from |-> r.recorders[m].own])]

\* a click on the Record button with the given outcome of the start attempt
RecordClickWith(fault) ==
    /\ ~rec.recordDisabled
    /\ Len(rec.recorders) < MaxRecorders
    /\ LET a == RecAudioInit(page, graph)
       IN /\ graph' = a.g
          /\ inited' = Marked(page, a.g)
          /\ edges' = edges \cup (IF page = "index" THEN {}
                                  ELSE InitEdgesAdded(page, graph, a.g))
          /\ rec' = IF a.threw \/ a.g.app.dest = 0
                    THEN [rec EXCEPT !.threw = @ \/ (a.threw /\ page # "piano")]
                    ELSE StartOf(page, rec, fault)
    /\ UNCHANGED <<page, clock, voices, timers, triggers, strums, pending, ks, tics, piano, dq>>

RecordClick == \E fault \in RecFaults : RecordClickWith(fault)

\* a click on the Stop button
StopClick ==
    /\ ~rec.stopDisabled
    /\ rec' = StopOf(page, rec)
    /\ UNCHANGED <<page, graph, inited, clock, voices, edges, timers, triggers, strums,
                   pending, ks, tics, piano, dq>>

\* the host delivers the oldest queued recorder event
RecorderEvent ==
    /\ rec.queue # <<>>
    /\ LET e == Head(rec.queue)
           r == [rec EXCEPT !.queue = Tail(@)]
       IN IF e.kind = "data"
          THEN \E size \in {0, 1} : rec' = OnData(page, r, e.m, size)
          ELSE \E decoded \in BOOLEAN : rec' = OnStop(page, r, e.m, decoded)
    /\ UNCHANGED <<page, graph, inited, clock, voices, edges, timers, triggers, strums,
                   pending, ks, tics, piano, dq>>

\* a pending timeout fires: updateRecorderTimer() on the piano page, tick() on
\* the drum pads; the interval of the strings page only rewrites the clock text
RecorderTimerFire(h) ==
    /\ h \in rec.armed
    /\ page \in {"piano", "drums"}
    /\ LET r == [rec EXCEPT !.armed = @ \ {h}]
       IN rec' = IF page = "piano"
                 THEN (IF r.isRecording THEN Arm(r) ELSE r)
                 ELSE (IF Recording(r, r.cur) THEN Arm(r) ELSE r)
    /\ UNCHANGED <<page, graph, inited, clock, voices, edges, timers, triggers, strums,
                   pending, ks, tics, piano, dq>>

\* the pages after their load handlers: ctxInit() on the drum pads and the
\* strings page, exportAsyncAudioContext() in script.js, nothing on the piano
InitRec ==
    /\ page \in RecPages
    /\ LET a == CASE page = "drums" -> AppInit(NoGraph("none"))
                  [] page = "strings" -> CtxInitStrings(NoGraph("none"))
                  [] page = "index" -> ExportContext(NoGraph("none"))
                  [] OTHER -> [g |-> NoGraph("none"), threw |-> FALSE]
       IN /\ graph = [a.g EXCEPT !.loaded = TRUE]
          /\ inited = Marked(page, a.g)
          /\ edges = IF page \in {"drums", "strings"} THEN InitEdges(page) ELSE {}
    /\ clock = 0
    /\ voices = <<>>
    /\ timers = {}
    /\ triggers = 0
    /\ strums = 0
    /\ pending = 0
    /\ ks = NoKS
    /\ tics = 0
    /\ piano = NoPlayback
    /\ rec = IdleRec
    /\ dq = NoDeque

NextRec ==
    \/ RecordClick
    \/ StopClick
    \/ RecorderEvent
    \/ \E h \in rec.armed : RecorderTimerFire(h)

SpecRec == InitRec /\ [][NextRec]_vars

-----------------------------------------------------------------------------
(* The piano page: reordering the saved recordings *)

\* the most recordings in the list
MaxRecordings == 5

\* a saved recording is identified by the recorder that built it (rec.id)
SavedRecording(id) == [by |-> id, from |-> <<id>>]

\* app.recordings.findIndex(r => r.id === id): the first position with that
\* id, counted from 1, and 0 where findIndex gives -1
FindIndex(list, id) ==
    IF \E i \in 1..Len(list) : list[i].by = id
    THEN CHOOSE i \in 1..Len(list) :
            list[i].by = id /\ \A j \in 1..(i - 1) : list[j].by # id
    ELSE 0

\* list.splice(at, 1): the list without the element at position `at`
SpliceOut(list, at) == SubSeq(list, 1, at - 1) \o SubSeq(list, at + 1, Len(list))

\* list.splice(at, 0, item): a start past the end is clamped to the end
SpliceIn(list, at, item) ==
    LET k == IF at > Len(list) + 1 THEN Len(list) + 1 ELSE at
    IN SubSeq(list, 1, k - 1) \o <<item>> \o SubSeq(list, k, Len(list))

\* mutant: the target index corrected for the removal of the dragged entry
ReorderAdjusted(list, draggedId, targetId) ==
    LET d == FindIndex(list, draggedId)
        t == FindIndex(list, targetId)
    IN IF d = 0 \/ t = 0 THEN list
       ELSE SpliceIn(SpliceOut(list, d), IF d < t THEN t - 1 ELSE t, list[d])

\* reorderRecordings(draggedId, targetId) on app.recordings
ReorderRecordings(list, draggedId, targetId) ==
    LET d == FindIndex(list, draggedId)
        t == FindIndex(list, targetId)
    IN IF d = 0 \/ t = 0 THEN list
       ELSE SpliceIn(SpliceOut(list, d), t, list[d])

\* the ids a drop can name: those of the recordings and one of none
DropIds == 1..(MaxRecordings + 1)

\* a drop of the row draggedId on the row targetId
Reorder(draggedId, targetId) ==
    /\ page = "piano"
    /\ rec' = [rec EXCEPT !.saved = ReorderRecordings(@, draggedId, targetId)]
    /\ UNCHANGED <<page, graph, inited, clock, voices, edges, timers, triggers, strums,
                   pending, ks, tics, piano, dq>>

\* recordings are added at the front (unshift) and deleted anywhere: before
\* the first drop the list holds some of the recordings, newest first
InitReorder ==
    /\ page = "piano"
    /\ graph = NoGraph("none")
    /\ inited = FALSE
    /\ clock = 0
    /\ voices = <<>>
    /\ edges = {}
    /\ timers = {}
    /\ triggers = 0
    /\ strums = 0
    /\ pending = 0
    /\ ks = NoKS
    /\ tics = 0
    /\ piano = NoPlayback
    /\ dq = NoDeque
    /\ \E keep \in SUBSET (1..MaxRecordings) :
          LET n == Cardinality(keep)
              nth[i \in 1..n] ==
                  CHOOSE id \in keep : Cardinality({ x \in keep : x > id }) = i - 1
          IN rec = [IdleRec EXCEPT !.saved = [i \in 1..n |-> SavedRecording(nth[i])]]

NextReorder == \E draggedId, targetId \in DropIds : Reorder(draggedId, targetId)

SpecReorder == InitReorder /\ [][NextReorder]_vars

-----------------------------------------------------------------------------
(* script.js: the Deque class *)

\* the most items in the Deque
MaxDequeLen == 3

\* what a call returns when there is no element
Undefined == "undefined"

\* this.items
DequeItems(d) == d.heap[d.items]

\* the cell of a new array: one that neither the Deque nor the caller holds
FreshCell(d) ==
    LET free == Cells \ {d.items, d.all}
    IN CHOOSE c \in free : \A x \in free : c <= x

\* pushBack(item): this.items.push(item)
PushBack(d, item) == [d EXCEPT !.heap[d.items] = Append(@, item)]

\* pushFront(item): this.items.unshift(item)
PushFront(d, item) == [d EXCEPT !.heap[d.items] = <<item>> \o @]

\* popBack(): return this.items.pop()
PopBack(d) ==
    LET p == ArrayPop(DequeItems(d))
    IN [d EXCEPT !.heap[d.items] = p.rest,
                 !.ret = IF p.none THEN Undefined ELSE p.value]

\* popFront(): return this.items.shift()
PopFront(d) ==
    IF DequeItems(d) = <<>> THEN [d EXCEPT !.ret = Undefined]
    ELSE LET p == ArrayShift(DequeItems(d))
         IN [d EXCEPT !.heap[d.items] = p.rest, !.ret = p.value]

\* peekBack(): this.items[this.items.length-1]
PeekBack(d) ==
    LET a == DequeItems(d) IN IF Len(a) = 0 THEN Undefined ELSE a[Len(a)]

\* peekFront(): this.items[0]
PeekFront(d) ==
    LET a == DequeItems(d) IN IF Len(a) = 0 THEN Undefined ELSE a[1]

\* clear(): this.items = [], a new array
Clear(d) ==
    LET c == FreshCell(d)
    IN [d EXCEPT !.heap = [x \in Cells |->
                             IF x = c \/ (x = d.items /\ d.all # d.items) THEN <<>>
                             ELSE d.heap[x]],
                 !.items = c]

\* mutant: getAll() that returns this.items itself
GetAllAlias(d) ==
    [d EXCEPT !.heap = [x \in Cells |->
                          IF x = d.all /\ d.all # d.items THEN <<>> ELSE d.heap[x]],
              !.all = d.items]

\* getAll(): this.items.slice(), a new array with the same elements, which
\* the caller holds in place of the one it held
GetAll(d) ==
    LET c == FreshCell(d)
    IN [d EXCEPT !.heap = [x \in Cells |->
                             IF x = c THEN DequeItems(d)
                             ELSE IF x = d.all /\ d.all # d.items THEN <<>>
                             ELSE d.heap[x]],
                 !.all = c]

\* size(): this.items.length
Size(d) == Len(DequeItems(d))

\* the last and the first element of a sequence, where it has one
LastOf(s) == IF s = <<>> THEN Undefined ELSE s[Len(s)]
FirstOf(s) == IF s = <<>> THEN Undefined ELSE s[1]

\* one call on the Deque, next to the same operation on the sequence ref
DequeStep(d) ==
    /\ dq' = d
    /\ UNCHANGED <<page, graph, inited, clock, voices, edges, timers, triggers, strums,
                   pending, ks, tics, piano, rec>>

DequePushBack ==
    /\ Size(dq) < MaxDequeLen
    /\ \E item \in Notes : DequeStep([PushBack(dq, item) EXCEPT !.ref = Append(@, item)])

DequePushFront ==
    /\ Size(dq) < MaxDequeLen
    /\ \E item \in Notes : DequeStep([PushFront(dq, item) EXCEPT !.ref = <<item>> \o @])

DequePopBack ==
    DequeStep([PopBack(dq) EXCEPT
                 !.ref = IF @ = <<>> THEN @ ELSE SubSeq(@, 1, Len(@) - 1),
                 !.want = LastOf(dq.ref)])

DequePopFront ==
    DequeStep([PopFront(dq) EXCEPT
                 !.ref = IF @ = <<>> THEN @ ELSE Tail(@),
                 !.want = FirstOf(dq.ref)])

DequePeekBack == DequeStep([dq EXCEPT !.ret = PeekBack(dq), !.want = LastOf(dq.ref)])

DequePeekFront == DequeStep([dq EXCEPT !.ret = PeekFront(dq), !.want = FirstOf(dq.ref)])

DequeClear == DequeStep([Clear(dq) EXCEPT !.ref = <<>>])

DequeGetAll == DequeStep(GetAll(dq))

\* the caller pushes an item onto the array getAll() returned
MutateReturned ==
    /\ dq.all # 0
    /\ Len(dq.heap[dq.all]) < MaxDequeLen
    /\ \E item \in Notes : DequeStep([dq EXCEPT !.heap[dq.all] = Append(@, item)])

NextDeque ==
    \/ DequePushBack
    \/ DequePushFront
    \/ DequePopBack
    \/ DequePopFront
    \/ DequePeekBack
    \/ DequePeekFront
    \/ DequeClear
    \/ DequeGetAll
    \/ MutateReturned

\* a new Deque(), as script.js creates one when it is loaded
InitDeque == Init /\ page = "piano"

SpecDeque == InitDeque /\ [][NextDeque]_vars

-----------------------------------------------------------------------------
(* Properties *)

VoiceSet == { voices[i] : i \in 1..Len(voices) }
OutNodes(v) == { Node(v.id, r) : r \in v.outs }
TeardownTimers == { t \in timers : t.kind = "teardown" }
Succ(S) == { e[2] : e \in { x \in edges : x[1] \in S } }
\* the voice has not been torn down
Live(v) == v.ran = 0
\* every output node of the voice is connected to all three sinks
Connected(v) == \A o \in OutNodes(v) : ToSinks(o) \subseteq edges
\* the plucked-string voices
Plucked(v) == v.kind \in {"playPluck", "pluck", "pluckGuitarString"}

\* every trigger has run to completion and every voice's scheduled expiry plus
\* safety margin has passed
AllExpired ==
    /\ Len(voices) > 0
    /\ timers = {}
    /\ pending = 0
    /\ \A v \in VoiceSet : clock >= Expiry(v)

\* C1: once every triggered voice's scheduled expiry plus safety margin has
\* passed, no node of any voice is still connected into the graph.
C1_ExpiredVoicesDisconnected == AllExpired => \A e \in edges : e[1].v = 0

\* C2: the output node of every voice is connected to exactly the three sinks
\* (none missing, nothing else), and reaches no sink a second time through
\* another node.
C2_ExactlyThreeSinks ==
    \A v \in VoiceSet : Live(v) =>
        \A o \in OutNodes(v) :
            /\ Succ({o}) = Sinks
            /\ (Succ(Succ({o})) \cup Succ(Succ(Succ({o})))) \cap Sinks = {}

\* every connection a step removes starts at a node of the voice whose teardown
\* task ran in that step
OnlyOwnTeardown ==
    \A e \in edges \ edges' :
        \E t \in timers \ timers' : t.kind = "teardown" /\ e[1].v = t.voice

\* C3: voices triggered in succession are live together, each connected to all
\* three sinks until its own teardown, and a teardown disconnects only nodes of
\* its own voice, in every interleaving of triggers and teardown timers.
C3_IndependentVoices ==
    /\ [](\A v \in VoiceSet : Live(v) => Connected(v))
    /\ [][OnlyOwnTeardown]_vars

\* the six voices of a strum are live and connected while another voice has
\* already been torn down
C3_Witness ==
    /\ Cardinality({ v \in VoiceSet : v.kind = "pluck" /\ Live(v) /\ Connected(v) }) >= NumStrings
    /\ \E v \in VoiceSet : v.ran = 1 /\ Succ(OutNodes(v)) = {}

\* the end times of every gain ramp and every source stop scheduled for the voice
ScheduledEnds(v) == v.ramps \cup v.stops

\* C4: for a positive duration parameter the teardown of a voice is due no
\* earlier than the end of each of its gain ramps and source stops, it has not
\* run before them, and until it runs the voice stays connected to the sinks.
C4_NoEarlyRelease ==
    /\ \A t \in TeardownTimers :
          voices[t.voice].dur > 0 => \A x \in ScheduledEnds(voices[t.voice]) : t.due >= x
    /\ \A v \in VoiceSet :
          v.dur > 0 =>
             /\ v.ran > 0 => \A x \in ScheduledEnds(v) : clock >= x
             /\ v.ran = 0 => Connected(v)

\* a voice with a positive duration has been torn down at its due time while
\* another one is still waiting for its teardown
C4_Witness ==
    /\ \E v \in VoiceSet : v.dur > 0 /\ v.ran = 1 /\ clock = v.due /\ ~Connected(v)
    /\ \E t \in TeardownTimers : voices[t.voice].dur > 0 /\ t.due > clock

\* C5: every voice has exactly one teardown task scheduled, which runs at most
\* once, and has run once the voice's expiry has passed.
C5_OneTeardownPerVoice ==
    \A v \in VoiceSet :
        /\ v.sched = 1
        /\ v.ran <= 1
        /\ AllExpired => v.ran = 1

\* L is Math.round(a / b) for b > 0: L <= a / b + 1/2 < L + 1
IsRounded(L, a, b) == 2 * L * b <= 2 * a + b /\ 2 * a + b < 2 * (L + 1) * b

\* C6: a newly constructed KarplusStrong has bufferLength
\* max(4, round(sampleRate / frequency)) and a buffer of exactly that many
\* samples; every positive finite frequency constructs one.
C6_BufferLength ==
    tics = 0 =>
        LET f == ks.frequency
            L == ks.bufferLength
        IN /\ (f.k = "num" /\ f.n > 0) => ks.ok
           /\ ks.ok =>
                /\ Len(ks.buffer) = L
                /\ L >= 4
                /\ (f.k = "num" /\ f.n > 0 /\ L > 4) => IsRounded(L, ks.sampleRate, f.n)
                /\ (f.k = "num" /\ f.n > 0 /\ L = 4) => 2 * ks.sampleRate + f.n < 10 * f.n
                /\ (f.k = "num" /\ f.n < 0) => L = 4
                /\ f.k = "inf" => L = 4

\* a frequency above sampleRate / 4 whose rounded length is below the floor
C6_Witness ==
    /\ tics = 0 /\ ks.ok
    /\ ks.frequency.k = "num" /\ 4 * ks.frequency.n > ks.sampleRate
    /\ 2 * ks.sampleRate + ks.frequency.n < 4 * ks.frequency.n
    /\ ks.bufferLength = 4 /\ Len(ks.buffer) = 4

\* y is x / d truncated toward zero (d > 0)
IsTruncated(y, x, d) ==
    /\ Abs(d * y) <= Abs(x)
    /\ Abs(x) - Abs(d * y) < d
    /\ (x >= 0 => y >= 0) /\ (x <= 0 => y <= 0)

\* one tic() step against the queue it operates on
TicMatchesQueue ==
    tics' = tics + 1 =>
        LET b == ks.buffer
            n == Len(b)
        IN /\ ks'.out = b[1]
           /\ Len(ks'.buffer) = n
           /\ \A i \in 1..(n - 1) : ks'.buffer[i] = b[i + 1]
           /\ IsTruncated(ks'.buffer[n], (b[1] + b[2]) * ks.decay, 2 * GainOne)

\* C7: tic() returns the oldest sample s1, removes it and appends
\* (s1 + s2) * 0.5 * decay, s2 being the sample after s1; the other samples
\* keep their values and order.
C7_TicIsQueueStep == [][TicMatchesQueue]_vars

\* the delay line has wrapped around: tic() returns a sample a tic() produced
C7_Witness ==
    /\ tics > ks.bufferLength
    /\ ks.out # 0
    /\ ks.buffer[ks.bufferLength] # 0

\* the number of paths that return signal from node a to node b, directly or
\* through one node in between
Paths(a, b) ==
    (IF <<a, b>> \in edges THEN 1 ELSE 0)
    + Cardinality({ m \in Succ({a}) \ {b} : <<m, b>> \in edges })

\* the factor by which the amplitude in the voice's loop changes per trip round
\* the loop (at 0 Hz, where the filters pass the signal unchanged): the feedback
\* gain summed over the paths back to the delay; for the precomputed delay line
\* the decay factor of the averaging filter
PeriodGain(v) ==
    CASE v.kind = "playPluck" ->
           v.feedback * Paths(Node(v.id, "feedback"), Node(v.id, "delay"))
      [] v.kind = "pluck" ->
           v.feedback * Paths(Node(v.id, "feedbackGain"), Node(v.id, "delay"))
      [] OTHER -> v.feedback

\* C8: for a positive duration and a damping factor in (0,1) the amplitude of a plucked-string voice
\* decreases from one trip round its loop to the next, and its output gain has
\* reached its floor by the voice's scheduled expiry.
C8_PluckedAmplitudeDecays ==
    \A v \in VoiceSet :
        (Plucked(v) /\ Live(v) /\ v.dur > 0 /\ v.damping > 0 /\ v.damping < GainOne) =>
            /\ PeriodGain(v) < GainOne
            /\ \A x \in v.ramps : x <= v.due

\* C9: no plucked-string voice exists whose damping/decay parameter is >= 1,
\* and none whose feedback gain is >= 1.
C9_RejectsDampingAtLeastOne ==
    \A v \in VoiceSet :
        Plucked(v) => v.damping < GainOne /\ v.feedback < GainOne

\* C10: no plucked-string voice exists whose frequency parameter is
\* non-positive or non-finite.
C10_RejectsBadFrequency ==
    \A v \in VoiceSet :
        Plucked(v) => IsFinite(v.freq) /\ v.freq.n > 0

\* C11: no voice exists that was triggered with a non-positive duration, and no
\* voice's teardown is due before the end of one of its own gain ramps.
C11_RejectsNonPositiveDuration ==
    \A v \in VoiceSet :
        /\ v.dur > 0
        /\ v.sched > 0 => \A x \in v.ramps : v.due >= x

\* C12: the gain applied to the gain node of every voice lies in [0,1],
\* whatever gain parameter the trigger was given.
C12_GainsClamped ==
    \A v \in VoiceSet : v.gain >= 0 /\ v.gain <= GainOne

\* the holder has a context but lacks its capture or its analysis sink
Partial(h) == h.ctx # 0 /\ (h.dest = 0 \/ h.analyser = 0)

\* C13: in a session in which no creation step throws, at most one audio
\* context has been created, and the capture and analysis sinks of every
\* holder belong to that holder's own context.
C13_OneGraphPerSession ==
    (graph.fault = "none" /\ ~graph.failed) =>
        /\ graph.made <= 1
        /\ \A h \in {graph.core, graph.app} :
              h.dest \in {0, h.ctx} /\ h.analyser \in {0, h.ctx}

\* C14: once a trigger has created a voice, the audio context, the capture
\* sink and the analysis sink its page uses all exist.
C14_InitialisedBeforeVoices ==
    Len(voices) > 0 =>
        LET h == UsedHolder(page, graph)
        IN h.ctx # 0 /\ h.dest # 0 /\ h.analyser # 0

\* C15: a holder left with a context but without one of its sinks by a failed
\* initialisation is not marked initialised: its initialisation function does
\* not return at once on the next call (SynthCore: _inited; app, GUITAR: ctx).
C15_FailedInitStaysRetryable ==
    /\ Partial(graph.core) => ~graph.core.inited
    /\ Partial(graph.app) => ~(graph.app.ctx # 0)

\* C16: whatever disconnect call of a teardown task throws, the error stays
\* inside the task: no voice's teardown has let an error out.
C16_TeardownErrorsSwallowed == \A v \in VoiceSet : ~v.escaped

\* a teardown task has run in which a disconnect threw and was swallowed, for
\* a voice of guitar.js or for one of SynthCore
C16_Witness ==
    \E v \in VoiceSet : v.ran = 1 /\ v.caught = 1 /\ ~v.escaped /\ Succ(OutNodes(v)) = {}

\* the delay line k after n calls of tic()
RECURSIVE KSAfter(_, _)
KSAfter(k, n) == IF n = 0 THEN k ELSE KSAfter(KSTic(k), n - 1)

\* C17: every run of the string at 110 Hz and 44100 Hz sample rate emits the
\* same sample at every step: the one the run with the first random stream
\* emits (the constructor takes a frequency and a sample rate and nothing else,
\* so these are the runs that can be started alike).
C17_SameSamplesEveryRun ==
    (ks.ok /\ ks.frequency = Num(110) /\ ks.sampleRate = SampleRateHz /\ tics > 0) =>
        ks.out = KSAfter(KarplusStrong(Num(110), SampleRateHz, 0), tics).out

\* C18: no sink has an outgoing connection, and only nodes of voices are
\* connected into a sink (no always-on source of the page is).
C18_SinksArePureConsumers ==
    \A e \in edges :
        /\ e[1] \notin Sinks
        /\ e[2] \in Sinks => e[1].v # 0

\* C19: the delay of a plucked-string voice never exceeds its ceiling,
\* whatever frequency was requested: 1.0 s in playPluck, 0.5 s in the guitar
\* pluck, and for the precomputed delay line the samples of one second, the
\* largest of these ceilings.
C19_DelayCeiling ==
    \A v \in VoiceSet :
        /\ v.kind = "playPluck" => (IsFinite(v.delay) /\ v.delay.n <= 1000000)
        /\ v.kind = "pluck" => (IsFinite(v.delay) /\ v.delay.n <= 500000)
        /\ v.kind = "pluckGuitarString" => v.bufLen <= SampleRateHz

\* C20: for every voice built as a feedback loop, whatever parameters it was
\* created with, the feedback gain summed over the parallel paths from the
\* feedback node back to the delay is below 1 while the loop is connected.
C20_LoopGainBelowOne ==
    \A v \in VoiceSet :
        (v.kind \in {"playPluck", "pluck"} /\ Live(v)) => PeriodGain(v) < GainOne

\* C21: once the teardown of a voice has run, no node the trigger created for
\* that voice has an outgoing connection.
C21_TeardownDisconnectsAll ==
    \A v \in VoiceSet : v.ran > 0 => \A e \in edges : e[1].v # v.id

\* C22: the teardown of every voice with a positive duration is due strictly
\* later than the end of the voice's scheduled duration and strictly later
\* than the last thing scheduled for its sound.
C22_PositiveSafetyMargin ==
    \A v \in VoiceSet :
        (v.sched > 0 /\ v.dur > 0) =>
            /\ v.due > v.t0 + v.dur
            /\ v.due > LastSound(v)

\* the voices built around a delay -> filter -> feedback-gain -> delay loop
LoopVoices == { v \in VoiceSet : v.kind \in {"playPluck", "pluck"} }

\* the sustain time of a loop voice, ms after its trigger
SustainTime(v) == IF v.kind = "playPluck" THEN PluckDuration(v.dur) ELSE v.dur

\* C23: whatever the damping, the feedback gain of a loop voice is ramped to
\* its floor at stopAt = trigger time + duration, the output gain reaches its
\* floor 50 ms after stopAt, and the teardown is due after both.
C23_FadeThenTeardown ==
    \A v \in LoopVoices :
        LET stopAt == v.t0 + SustainTime(v)
        IN /\ v.fbEnd = stopAt
           /\ stopAt + 50 \in v.ramps
           /\ v.sched > 0 /\ v.due > stopAt + 50

\* every exponential ramp a voice has scheduled, gain envelopes and sweeps
RampTargets(v) == v.targets \cup (IF v.sweep >= 0 THEN {v.sweepTo} ELSE {})

\* C24: every exponential ramp of every voice targets a strictly positive
\* value, and the frequency sweep of a kick never targets less than 20 Hz.
C24_RampTargetsPositive ==
    \A v \in VoiceSet :
        /\ \A x \in RampTargets(v) : x > 0
        /\ v.kind = "playKick" => v.sweepTo >= 20

\* a kick asked to sweep below 20 Hz has been triggered
C24_Witness ==
    \E v \in VoiceSet : v.kind = "playKick" /\ v.sweepTo = 20 /\ v.targets # {}

\* C25: however many times tic() has run, the buffer holds exactly
\* bufferLength samples, at least 4, every one of them a number; so the next
\* tic() finds a second sample to read, and no tic() changes the length.
C25_BufferLengthFixed ==
    ks.ok =>
        /\ ks.bufferLength >= 4
        /\ Len(ks.buffer) = ks.bufferLength
        /\ Len(ArrayShift(ks.buffer).rest) >= 1
        /\ \A i \in 1..Len(ks.buffer) : ks.buffer[i] \in Int

\* the shortest delay line after more calls of tic() than it has samples
C25_Witness ==
    ks.ok /\ ks.bufferLength = 4 /\ tics > 2 * ks.bufferLength

\* the largest absolute sample in the buffer b
Peak(b) == SetMax({ Abs(b[i]) : i \in 1..Len(b) })

\* one tic() step does not raise the peak of the buffer, and from the state
\* before it, bufferLength calls of tic() (for the delay lines short enough
\* to run through within MaxTics calls) bring the peak down to decay * peak
PeakDecays ==
    (tics' = tics + 1 /\ ks.decay > 0 /\ ks.decay < GainOne) =>
        /\ Peak(ks'.buffer) <= Peak(ks.buffer)
        /\ ks.bufferLength <= MaxTics =>
              Peak(KSAfter(ks, ks.bufferLength).buffer) * GainOne
                  <= ks.decay * Peak(ks.buffer)

\* C26: with the decay factor in (0,1), the largest absolute sample in the
\* buffer never increases across a tic(), and bufferLength consecutive calls
\* of tic() leave it at most decay times what it was before them.
C26_PeakNeverGrows == [][PeakDecays]_vars

\* a delay line with a non-zero sample has run once through its whole length
\* and its peak is lower than that of the noise it started from
C26_Witness ==
    /\ ks.ok /\ tics = ks.bufferLength
    /\ Peak(ks.buffer) > 0
    /\ Peak(ks.buffer) * GainOne <= ks.decay * SampleScale

\* the plucked-string voices the ensemble voice p created
StringsOf(p) == { v \in VoiceSet : v.parent = p.id }

\* C27: an ensemble voice asked for N strings has exactly N plucked-string
\* voices; string i has the damping decay - 0.0005 * i, the gain 1/N, its own
\* filter node and, until it runs, its own teardown timer, and its output is
\* connected into the gain node of the ensemble.
C27_EnsembleOfStrings ==
    \A p \in VoiceSet :
        p.kind = "playPianoLike" =>
            LET N == p.strings
            IN /\ Cardinality(StringsOf(p)) = N
               /\ \A i \in 0..(N - 1) :
                     \E v \in StringsOf(p) :
                        /\ v.id = p.id + 1 + i
                        /\ v.kind = "playPluck"
                        /\ v.damping = p.damping - 5 * i
                        /\ v.gain * N <= GainOne /\ GainOne - v.gain * N < N
                        /\ "filter" \in v.roles
                        /\ v.sched = 1
                        /\ v.ran = 0 =>
                              /\ Cardinality({ tm \in timers : tm.voice = v.id }) = 1
                              /\ <<Node(v.id, "outGain"), Node(p.id, "gainNode")>> \in edges

\* an ensemble of three strings is sounding
C27_Witness ==
    \E p \in VoiceSet :
        /\ p.kind = "playPianoLike" /\ p.strings = 3
        /\ Cardinality(StringsOf(p)) = 3
        /\ \A v \in StringsOf(p) : v.ran = 0 /\ v.gain = GainOne \div 3

\* C28: for a kick of positive duration d the frequency sweep ends d/2 after
\* the trigger, the amplitude ramp d after it, the oscillator stops d + 20 ms
\* after it and the teardown is due d + 100 ms after it, one after the other.
C28_KickOrder ==
    \A v \in VoiceSet :
        (v.kind = "playKick" /\ v.dur > 0) =>
            /\ v.sweep = v.t0 + v.dur \div 2
            /\ v.ramps = {v.t0 + v.dur}
            /\ v.stops = {v.t0 + v.dur + 20}
            /\ v.sched = 1 /\ v.due = v.t0 + v.dur + 100
            /\ v.sweep < v.t0 + v.dur
            /\ \A r \in v.ramps : \A x \in v.stops : r < x /\ x < v.due

\* a short kick has been torn down
C28_Witness ==
    \E v \in VoiceSet : v.kind = "playKick" /\ v.dur = 80 /\ v.ran = 1

\* the nodes of the voice's teardown task that still have an outgoing connection
StillConnected(v) ==
    { r \in v.roles :
        /\ \E i \in 1..Len(TeardownOrder(v.kind)) : TeardownOrder(v.kind)[i] = r
        /\ \E e \in edges : e[1] = Node(v.id, r) }

\* C29: when a disconnect call has thrown in the teardown of a loop voice
\* (playPluck or the guitar pluck), the same teardown has still disconnected
\* every other node of the voice: at most the node whose disconnect threw is
\* left with an outgoing connection.
C29_TeardownSurvivesThrow ==
    \A v \in LoopVoices :
        (v.ran = 1 /\ v.caught > 0) => Cardinality(StillConnected(v)) <= 1

\* while a playback runs, playNext never finds i at the end of the history:
\* every note it has played has lengthened the history by one
PlaybackBehind ==
    piano.disabled =>
        \/ piano.i < Len(piano.deque)
        \/ piano.pc = "timer" /\ piano.i <= Len(piano.deque)

\* C30: a playback that has started (the history was not empty, the button is
\* disabled) eventually plays past the last entry: no playNote call of it is
\* pending, no playNext timer is scheduled and the button is enabled again.
C30_PlaybackTerminates ==
    piano.disabled ~>
        (~piano.disabled /\ piano.pc = "idle"
            /\ \A t \in timers : t.kind # "playNext")

\* how many times note x occurs in the history and the redo stack together
Held(pn, x) ==
    Cardinality({ i \in 1..Len(pn.deque) : pn.deque[i] = x })
    + Cardinality({ i \in 1..Len(pn.redoStack) : pn.redoStack[i] = x })

\* C31: an undo click and a redo click each leave the combined contents of
\* the history and the redo stack the same multiset; undo followed at once by
\* redo gives back the very history and redo stack there were; undo on an
\* empty history and redo on an empty redo stack change nothing.
C31_UndoRedoConserve ==
    /\ \A x \in Notes :
          /\ Held(UndoStep(piano), x) = Held(piano, x)
          /\ Held(RedoStep(piano), x) = Held(piano, x)
    /\ Len(piano.deque) > 0 => RedoStep(UndoStep(piano)) = piano
    /\ Len(piano.deque) = 0 => UndoStep(piano) = piano
    /\ Len(piano.redoStack) = 0 => RedoStep(piano) = piano

\* two different notes were played and the second one undone
C31_Witness ==
    /\ Len(piano.deque) = 1 /\ Len(piano.redoStack) = 1
    /\ piano.deque[1] # piano.redoStack[1]
    /\ Len(voices) = 2

\* a playNote call completes in this step: it has created its voice
NoteCompleted == Len(voices') = Len(voices) + 1

\* after the completed call the redo stack is empty, the history is the one
\* before with the played note appended, and a redo changes nothing
RedoInvalidated ==
    NoteCompleted =>
        /\ piano'.redoStack = <<>>
        /\ \E note \in Notes : piano'.deque = Append(piano.deque, note)
        /\ RedoStep(piano') = piano'

\* C32: after every completed playNote call the redo stack is empty and the
\* note played is the last entry of the history, so that a redo that follows
\* is a no-op, whatever undo and redo clicks came before.
C32_PlayInvalidatesRedo == [][RedoInvalidated]_vars

\* a note was played, undone, and then another note was played
C32_Witness ==
    /\ Len(voices) = 2
    /\ Len(piano.deque) = 1
    /\ piano.redoStack = <<>>

\* the recorders in the recording state
Active(r) == { m \in 1..Len(r.recorders) : r.recorders[m].state = "recording" }

\* C33: on every page and after any clicks at most one recorder is in the
\* recording state, and a recorder that is recording is the one the page
\* refers to, so that Stop reaches it
C33_OneActiveRecorder ==
    /\ Cardinality(Active(rec)) <= 1
    /\ \A m \in Active(rec) : rec.cur = m

\* C34: every saved recording holds only chunks that the recorder whose stop
\* event built it has delivered
C34_SessionsIsolated ==
    \A i \in 1..Len(rec.saved) :
        \A j \in 1..Len(rec.saved[i].from) : rec.saved[i].from[j] = rec.saved[i].by

\* the state a failed start has to leave: not recording, Record enabled, Stop
\* disabled, the recorder reference and the pending timers as before
StaysIdle ==
    /\ ~rec'.isRecording
    /\ ~rec'.recordDisabled
    /\ rec'.stopDisabled
    /\ rec'.cur = rec.cur
    /\ rec'.armed = rec.armed

\* C35: on the piano page and the strings page a Record click in the idle
\* state whose recorder construction or start() throws leaves the page idle:
\* isRecording false, Record enabled, Stop disabled, the recorder reference
\* not replaced, no timer started
C35_FailedStartStaysIdle ==
    [][\A fault \in {"create", "start"} :
          (/\ page \in {"piano", "strings"}
           /\ rec.stopDisabled
           /\ RecordClickWith(fault)) => StaysIdle]_vars

IdsWithout(list, id) ==
    LET kept == SelectSeq(list, LAMBDA r : r.by # id)
    IN [i \in 1..Len(kept) |-> kept[i].by]

\* C37: reorderRecordings(draggedId, targetId) permutes the list: the same
\* recordings and the same length, the dragged recording at the index the
\* target had before, the others in their order, and the list unchanged when
\* an id is unknown or both are the same
C37_ReorderPermutes ==
    \A d, t \in DropIds :
        LET a == rec.saved
            b == ReorderRecordings(a, d, t)
            known == FindIndex(a, d) # 0 /\ FindIndex(a, t) # 0
        IN /\ Len(b) = Len(a)
           /\ { b[i] : i \in 1..Len(b) } = { a[i] : i \in 1..Len(a) }
           /\ (~known \/ d = t) => b = a
           /\ known => /\ FindIndex(b, d) = FindIndex(a, t)
                       /\ IdsWithout(b, d) = IdsWithout(a, d)

\* three recordings with the newest in the middle: out of the newest-first
\* order, which only a drop produces
C37_Witness ==
    /\ Len(rec.saved) = 3
    /\ rec.saved[1].by < rec.saved[2].by
    /\ rec.saved[3].by < rec.saved[2].by

\* C38: after any sequence of pushBack, pushFront, popBack, popFront and
\* clear, with peeks, getAll() calls and changes to the arrays getAll()
\* returned in between, the Deque holds the sequence a double-ended queue
\* holds: getAll() gives that sequence, size() its length, the peeks its ends,
\* and the last pop or peek returned the element at that end, or undefined
\* from an empty Deque, which stays empty
C38_DequeRefines ==
    /\ DequeItems(GetAll(dq)) = dq.ref
    /\ GetAll(dq).heap[GetAll(dq).all] = dq.ref
    /\ Size(dq) = Len(dq.ref)
    /\ PeekBack(dq) = LastOf(dq.ref)
    /\ PeekFront(dq) = FirstOf(dq.ref)
    /\ dq.ret = dq.want
    /\ (dq.ref = <<>> => PopBack(dq).heap[dq.items] = <<>> /\ PopFront(dq).heap[dq.items] = <<>>)

\* a Deque of two different items whose getAll() array the caller has
\* lengthened, after a pop has returned an item
C38_Witness ==
    /\ Len(dq.ref) = 2
    /\ dq.ref[1] # dq.ref[2]
    /\ dq.all # 0
    /\ Len(dq.heap[dq.all]) = 3
    /\ dq.ret \in Notes
====
